---- MODULE Spec2Model ----
(***************************************************************************)
(* Itinerary scheduling and validation engine of the travel planner:       *)
(* travel_calculate, _cluster_pois, itinerary_builder, the text itinerary  *)
(* parser and the feasibility / grounding / edit-correctness evaluations.  *)
(*                                                                         *)
(* Conventions of the model                                                *)
(*  - a Python str is a sequence of one-character strings; Alphabet lists  *)
(*    the characters in code-point order, so Code gives str comparison;    *)
(*  - a Python dict is a function on the set of keys that are present;     *)
(*  - hours are counted in ticks of 1/300 h (12 s): a minute is 5 ticks,   *)
(*    a hundredth of an hour is 3 ticks, so every sum of durations and     *)
(*    travel minutes is an exact integer (exact arithmetic stands for the  *)
(*    floats of the source);                                               *)
(*  - coordinates lie on one meridian and lat is counted in metres of arc, *)
(*    where the haversine distance is the difference of the latitudes.     *)
(***************************************************************************)
EXTENDS Integers, Sequences, FiniteSets, TLC

----------------------------------------------------------------------------
(* Python str helpers *)

Alphabet ==
    << "\n", " ", "!", "\"", "#", "(", ")", "*", ",", "-", ".",
       "0", "1", "2", "3", "4", "5", "6", "7", "8", "9", ":", "?",
       "A", "B", "C", "D", "E", "F", "G", "H", "I", "J", "K", "L", "M",
       "N", "O", "P", "Q", "R", "S", "T", "U", "V", "W", "X", "Y", "Z", "_",
       "a", "b", "c", "d", "e", "f", "g", "h", "i", "j", "k", "l", "m",
       "n", "o", "p", "q", "r", "s", "t", "u", "v", "w", "x", "y", "z" >>

\* ord(c), as the place of c in Alphabet
CodeTable ==
    [ c \in { Alphabet[i] : i \in 1..Len(Alphabet) } |->
        CHOOSE i \in 1..Len(Alphabet) : Alphabet[i] = c ]

Code(c) == CodeTable[c]

\* str.lower() of the upper-case letters
LowerOf ==
    [ A |-> "a", B |-> "b", C |-> "c", D |-> "d", E |-> "e", F |-> "f", G |-> "g",
      H |-> "h", I |-> "i", J |-> "j", K |-> "k", L |-> "l", M |-> "m", N |-> "n",
      O |-> "o", P |-> "p", Q |-> "q", R |-> "r", S |-> "s", T |-> "t", U |-> "u",
      V |-> "v", W |-> "w", X |-> "x", Y |-> "y", Z |-> "z" ]

\* str.upper() of the lower-case letters
UpperOf ==
    [ a |-> "A", b |-> "B", c |-> "C", d |-> "D", e |-> "E", f |-> "F", g |-> "G",
      h |-> "H", i |-> "I", j |-> "J", k |-> "K", l |-> "L", m |-> "M", n |-> "N",
      o |-> "O", p |-> "P", q |-> "Q", r |-> "R", s |-> "S", t |-> "T", u |-> "U",
      v |-> "V", w |-> "W", x |-> "X", y |-> "Y", z |-> "Z" ]

\* int() of the digits
DigitValue ==
    ("0" :> 0) @@ ("1" :> 1) @@ ("2" :> 2) @@ ("3" :> 3) @@ ("4" :> 4) @@ ("5" :> 5)
        @@ ("6" :> 6) @@ ("7" :> 7) @@ ("8" :> 8) @@ ("9" :> 9)

IsUpper(c) == c \in DOMAIN LowerOf

IsLower(c) == c \in DOMAIN UpperOf

IsDigit(c) == c \in DOMAIN DigitValue

\* \s of the alphabet: the newline and the blank
IsSpace(c) == c \in { "\n", " " }

LowerChar(c) == IF IsUpper(c) THEN LowerOf[c] ELSE c

UpperChar(c) == IF IsLower(c) THEN UpperOf[c] ELSE c

Lower(s) == [i \in 1..Len(s) |-> LowerChar(s[i])]

Upper(s) == [i \in 1..Len(s) |-> UpperChar(s[i])]

RECURSIVE LStrip(_)
LStrip(s) == IF s # <<>> /\ IsSpace(Head(s)) THEN LStrip(Tail(s)) ELSE s

RECURSIVE RStrip(_)
RStrip(s) ==
    IF s # <<>> /\ IsSpace(s[Len(s)]) THEN RStrip(SubSeq(s, 1, Len(s) - 1)) ELSE s

Strip(s) == RStrip(LStrip(s))

\* s < t in Python's str order (lexicographic by code point)
RECURSIVE StrLess(_, _)
StrLess(s, t) ==
    IF t = <<>> THEN FALSE
    ELSE IF s = <<>> THEN TRUE
    ELSE IF Head(s) = Head(t) THEN StrLess(Tail(s), Tail(t))
    ELSE Code(Head(s)) < Code(Head(t))

\* sub in s
Contains(s, sub) ==
    \E i \in 0..(Len(s) - Len(sub)) : SubSeq(s, i + 1, i + Len(sub)) = sub

Max(a, b) == IF a >= b THEN a ELSE b

Min(a, b) == IF a <= b THEN a ELSE b

Abs(x) == IF x < 0 THEN -x ELSE x

\* Python round() of the fraction n/d (n >= 0, d > 0): nearest integer, ties to even
Round(n, d) ==
    LET q == n \div d
        r == n % d
    IN  IF 2 * r < d THEN q
        ELSE IF 2 * r > d THEN q + 1
        ELSE IF q % 2 = 0 THEN q ELSE q + 1

RECURSIVE SumSeq(_)
SumSeq(s) == IF s = <<>> THEN 0 ELSE Head(s) + SumSeq(Tail(s))

----------------------------------------------------------------------------
(* travel_calculator.py *)

TicksPerMinute == 5

TicksPerHour == 300

\* _haversine_km on one meridian: the great-circle distance is the
\* difference of the latitudes (here in metres)
HaversineM(lat1, lat2) == Abs(lat2 - lat1)

BASE_MINUTES == 5

WALK_KMH == 4

AUTO_KMH == 20

WalkLimitM == 1500

WalkNote == "Walking not recommended for >1.5 km in Udaipur heat."

SpeedMinutes_Truncated(distM, kmh) == (60 * distM) \div (1000 * kmh)

\* minutes at a speed: int(round(60 * dist / speed)), dist in metres
SpeedMinutes(distM, kmh) == Round(60 * distM, 1000 * kmh)

travel_calculate(from_lat, to_lat) ==
    LET dist == HaversineM(from_lat, to_lat)
    IN  [ distance_km100     |-> Round(dist, 10),
          walk_time_minutes  |-> BASE_MINUTES + SpeedMinutes(dist, WALK_KMH),
          auto_time_minutes  |-> BASE_MINUTES + SpeedMinutes(dist, AUTO_KMH),
          recommended_mode   |-> IF dist <= WalkLimitM THEN "walk" ELSE "auto",
          notes              |-> IF dist > WalkLimitM THEN WalkNote ELSE "" ]

----------------------------------------------------------------------------
(* itinerary_builder.py: constants and pure helpers *)

\* frequently used strings
S_food == << "f", "o", "o", "d" >>

S_Food == << "F", "o", "o", "d" >>

S_heritage == << "h", "e", "r", "i", "t", "a", "g", "e" >>

S_nature == << "n", "a", "t", "u", "r", "e" >>

S_relaxed == << "r", "e", "l", "a", "x", "e", "d" >>

S_moderate == << "m", "o", "d", "e", "r", "a", "t", "e" >>

S_packed == << "p", "a", "c", "k", "e", "d" >>

S_PackedSp == << "P", "a", "c", "k", "e", "d", " " >>

S_fast == << "f", "a", "s", "t" >>

CLUSTER_RADIUS_M == 2000

DEFAULT_DURATION_HOURS == 450

BASE_TRAVEL_MIN == 15

MAX_TRAVEL_MIN == 30

\* dict.get(key, default)
Get(dict, key, default) == IF key \in DOMAIN dict THEN dict[key] ELSE default

\* dict.setdefault(key, value) on a copy
SetDefault(dict, key, value) ==
    IF key \in DOMAIN dict THEN dict ELSE dict @@ (key :> value)

\* the static reference table the repository returns (pois.json); one entry
StaticPois ==
    << [ name |-> << "C" >>, duration_hours |-> 600, best_time |-> "evening",
         cost_inr |-> 100 ] >>

_static_poi_map ==
    [ n \in { Strip(StaticPois[k].name) :
                k \in { j \in 1..Len(StaticPois) : StaticPois[j].name # <<>> } }
        |-> StaticPois[CHOOSE k \in 1..Len(StaticPois) :
                         /\ Strip(StaticPois[k].name) = n
                         /\ \A j \in (k + 1)..Len(StaticPois) :
                                Strip(StaticPois[j].name) # n] ]

_enrich_poi(poi, static) ==
    LET name == Strip(Get(poi, "name", <<>>))
        s == IF name \in DOMAIN static THEN static[name] ELSE << >>
        d1 == SetDefault(poi, "duration_hours",
                         Get(s, "duration_hours", DEFAULT_DURATION_HOURS))
        d2 == SetDefault(d1, "best_time", Get(s, "best_time", "morning"))
    IN  SetDefault(d2, "cost_inr", Get(s, "cost_inr", 0))

RECURSIVE UniqueFrom_KeepBlank(_, _)
UniqueFrom_KeepBlank(enriched, seen) ==
    IF enriched = <<>> THEN <<>>
    ELSE LET p == Head(enriched)
             n == Strip(p.name)
         IN  IF n \notin seen
             THEN <<p>> \o UniqueFrom_KeepBlank(Tail(enriched), seen \cup {n})
             ELSE UniqueFrom_KeepBlank(Tail(enriched), seen)

\* lines 113-119: first occurrence of every non-blank stripped name
RECURSIVE UniqueFrom(_, _)
UniqueFrom(enriched, seen) ==
    IF enriched = <<>> THEN <<>>
    ELSE LET p == Head(enriched)
             n == Strip(p.name)
         IN  IF n # <<>> /\ n \notin seen
             THEN <<p>> \o UniqueFrom(Tail(enriched), seen \cup {n})
             ELSE UniqueFrom(Tail(enriched), seen)

Unique(pois) ==
    UniqueFrom([k \in 1..Len(pois) |-> _enrich_poi(pois[k], _static_poi_map)], {})

\* the indices of a set in increasing order
RECURSIVE Ascending(_)
Ascending(S) ==
    IF S = {} THEN <<>>
    ELSE LET m == CHOOSE x \in S : \A y \in S : x <= y
         IN  <<m>> \o Ascending(S \ {m})

\* as ClusterFrom, but a POI also joins through a member of the cluster
RECURSIVE ClusterFrom_Chained(_, _, _)
ClusterFrom_Chained(pois, i, used) ==
    IF i > Len(pois) THEN <<>>
    ELSE IF i \in used THEN ClusterFrom_Chained(pois, i + 1, used)
    ELSE LET direct == { j \in 1..Len(pois) :
                           /\ j \notin used \cup {i}
                           /\ HaversineM(pois[i].lat, pois[j].lat) <= CLUSTER_RADIUS_M }
             near == direct \cup
                     { j \in 1..Len(pois) :
                         /\ j \notin used \cup {i}
                         /\ \E m \in direct :
                                HaversineM(pois[m].lat, pois[j].lat) <= CLUSTER_RADIUS_M }
         IN  << <<i>> \o Ascending(near) >>
                \o ClusterFrom_Chained(pois, i + 1, used \cup {i} \cup near)

\* _cluster_pois as clusters of indices into pois, from seed candidate i on
RECURSIVE ClusterFrom(_, _, _)
ClusterFrom(pois, i, used) ==
    IF i > Len(pois) THEN <<>>
    ELSE IF i \in used THEN ClusterFrom(pois, i + 1, used)
    ELSE LET near == { j \in 1..Len(pois) :
                         /\ j \notin used \cup {i}
                         /\ HaversineM(pois[i].lat, pois[j].lat) <= CLUSTER_RADIUS_M }
         IN  << <<i>> \o Ascending(near) >>
                \o ClusterFrom(pois, i + 1, used \cup {i} \cup near)

_cluster_pois(pois) ==
    LET cl == ClusterFrom(pois, 1, {})
    IN  [c \in 1..Len(cl) |-> [k \in 1..Len(cl[c]) |-> pois[cl[c][k]]]]

\* Python order of the best_time strings
BestTimeOrder == << "afternoon", "evening", "lunch", "morning", "sunset" >>

BestTimeRank(bt) == CHOOSE r \in 1..Len(BestTimeOrder) : BestTimeOrder[r] = bt

\* key(x) < key(y) for key = (best_time, name)
KeyLess(x, y) ==
    \/ BestTimeRank(x.best_time) < BestTimeRank(y.best_time)
    \/ /\ x.best_time = y.best_time
       /\ StrLess(x.name, y.name)

\* sorted(c, key=...): stable insertion
RECURSIVE InsertSorted(_, _)
InsertSorted(sorted, x) ==
    IF sorted = <<>> THEN <<x>>
    ELSE IF KeyLess(x, Head(sorted)) THEN <<x>> \o sorted
    ELSE <<Head(sorted)>> \o InsertSorted(Tail(sorted), x)

RECURSIVE SortCluster(_)
SortCluster(c) ==
    IF c = <<>> THEN <<>>
    ELSE InsertSorted(SortCluster(SubSeq(c, 1, Len(c) - 1)), c[Len(c)])

RECURSIVE Flatten(_)
Flatten(clusters) ==
    IF clusters = <<>> THEN <<>>
    ELSE SortCluster(Head(clusters)) \o Flatten(Tail(clusters))

\* lines 148-153
Ordered(unique) ==
    LET flat_clusters == Flatten(_cluster_pois(unique))
    IN  IF flat_clusters # <<>> THEN flat_clusters ELSE unique

_estimate_travel_min_Unclamped(from_poi, to_poi) ==
    travel_calculate(from_poi.lat, to_poi.lat).auto_time_minutes

_estimate_travel_min(from_poi, to_poi) ==
    Min(Max(BASE_TRAVEL_MIN, travel_calculate(from_poi.lat, to_poi.lat).auto_time_minutes),
        MAX_TRAVEL_MIN)

\* pace multiplier in percent (line 107)
PaceMult(pace) ==
    LET key == Lower(Strip(IF pace = <<>> THEN S_moderate ELSE pace))
    IN  IF key = S_relaxed THEN 60
        ELSE IF key = S_moderate THEN 75
        ELSE IF key = S_packed THEN 90
        ELSE 75

\* line 108
DaysCap(duration_days) ==
    Max(1, Min(4, IF duration_days = 0 THEN 2 ELSE duration_days))

DailyCap_NoDefault(daily_hours, pace) ==
    Max(1, Min(12, daily_hours)) * 3 * PaceMult(pace)

\* line 109, in ticks
DailyCap(daily_hours, pace) ==
    Max(1, Min(12, IF daily_hours = 0 THEN 8 ELSE daily_hours)) * 3 * PaceMult(pace)

\* line 162: total_h < min_hours_per_day, min_hours_per_day = max(3.0, 0.4 * cap)
BelowMinHours(total, cap) == total < 3 * TicksPerHour \/ 10 * total < 4 * cap

\* int(round(dh * 60)): a duration in whole minutes
DurMinutes(dh) == Round(dh, TicksPerMinute)

DigitChars == << "0", "1", "2", "3", "4", "5", "6", "7", "8", "9" >>

RECURSIVE DecStr(_)
DecStr(n) ==
    IF n < 10 THEN << DigitChars[n + 1] >>
    ELSE DecStr(n \div 10) \o << DigitChars[(n % 10) + 1] >>

TwoDigits(m) == IF m < 10 THEN << "0" >> \o DecStr(m) ELSE DecStr(m)

TimeStr_FromNoon(start_minutes) ==
    LET h == 12 + start_minutes \div 60
        m == start_minutes % 60
    IN  IF h < 12 THEN DecStr(h) \o << ":" >> \o TwoDigits(m) \o << " ", "A", "M" >>
        ELSE IF h = 12 THEN << "1", "2", ":" >> \o TwoDigits(m) \o << " ", "P", "M" >>
        ELSE DecStr(h - 12) \o << ":" >> \o TwoDigits(m) \o << " ", "P", "M" >>

\* lines 216-223: the clock string of start_minutes after 8:00
TimeStr(start_minutes) ==
    LET h == 8 + start_minutes \div 60
        m == start_minutes % 60
    IN  IF h < 12 THEN DecStr(h) \o << ":" >> \o TwoDigits(m) \o << " ", "A", "M" >>
        ELSE IF h = 12 THEN << "1", "2", ":" >> \o TwoDigits(m) \o << " ", "P", "M" >>
        ELSE DecStr(h - 12) \o << ":" >> \o TwoDigits(m) \o << " ", "P", "M" >>

----------------------------------------------------------------------------
(* The state *)

VARIABLES
    \* itinerary_builder: arguments, locals and the returned value
    pois, duration_days, pace, daily_hours,
    unique, ordered, days_out, used, total_cost, warnings,
    d, activities, total_h, has_food, prev, start_minutes,
    attempts_since_last_add, cursor, via_overrun, pc, out,
    \* travel_calculate: the arguments and the returned value of a call
    tc_args, tc_result,
    \* evaluate_feasibility
    fe_args, fe_result,
    \* evaluate_edit_correctness
    ed_args, ed_result,
    \* evaluate_grounding
    gr_args, gr_result,
    \* parse_text_itinerary
    pt_text, pt_result,
    \* OverpassClient: the fields of the client, the cache directory, the
    \* requests that reached the endpoint and the last call of search_pois
    oc_max_requests, oc_request_count, oc_cache, oc_sent, oc_calls,
    oc_key, oc_result,
    \* ConversationManager: the fields of the manager, the turns made and
    \* the last call of process_with_tools with what it returned
    cm_grok, cm_messages, cm_last_itinerary, cm_turns, cm_call, cm_result

bvars ==
    << pois, duration_days, pace, daily_hours, unique, ordered, days_out, used,
       total_cost, warnings, d, activities, total_h, has_food, prev,
       start_minutes, attempts_since_last_add, cursor, via_overrun, pc, out >>

tvars == << tc_args, tc_result >>

fvars == << fe_args, fe_result >>

evars == << ed_args, ed_result >>

gvars == << gr_args, gr_result >>

pvars == << pt_text, pt_result >>

ovars ==
    << oc_max_requests, oc_request_count, oc_cache, oc_sent, oc_calls,
       oc_key, oc_result >>

cvars == << cm_grok, cm_messages, cm_last_itinerary, cm_turns, cm_call, cm_result >>

vars == << bvars, tvars, fvars, evars, gvars, pvars, ovars, cvars >>

\* no call of the component has been made
NoCall == << >>

TIdle == tc_args = NoCall /\ tc_result = NoCall

FIdle == fe_args = NoCall /\ fe_result = NoCall

EIdle == ed_args = NoCall /\ ed_result = NoCall

GIdle == gr_args = NoCall /\ gr_result = NoCall

PIdle == pt_text = NoCall /\ pt_result = NoCall

\* no manager has been constructed
CIdle ==
    /\ cm_grok = FALSE /\ cm_messages = << >> /\ cm_last_itinerary = << >>
    /\ cm_turns = 0 /\ cm_call = NoCall /\ cm_result = NoCall

\* no client has been constructed
OIdle ==
    /\ oc_max_requests = 0 /\ oc_request_count = 0 /\ oc_cache = << >>
    /\ oc_sent = 0 /\ oc_calls = 0 /\ oc_key = NoCall /\ oc_result = NoCall

----------------------------------------------------------------------------
(* itinerary_builder: the inputs the model calls it with *)

MaxPois == 3

NBig == 11

SmallPool ==
    { [ name |-> << "A" >>, type |-> S_heritage, lat |-> 0,
        duration_hours |-> 1800, best_time |-> "morning", cost_inr |-> 300 ],
      [ name |-> << "a" >>, type |-> S_food, lat |-> 1000,
        duration_hours |-> 450, best_time |-> "evening", cost_inr |-> 1200 ],
      [ name |-> << "A", " " >>, type |-> S_Food, lat |-> 5000 ],
      [ name |-> << " " >>, type |-> S_heritage, lat |-> 0,
        duration_hours |-> 300, best_time |-> "morning", cost_inr |-> 10 ],
      [ name |-> << "B" >>, type |-> S_nature, lat |-> 2500,
        duration_hours |-> 452, best_time |-> "lunch", cost_inr |-> 50 ],
      [ name |-> << "C" >>, type |-> S_Food, lat |-> 9000 ] }

SmallLists == UNION { [1..n -> SmallPool] : n \in 0..MaxPois }

\* (duration_days, pace, daily_hours)
SmallParams ==
    { << 1, S_moderate, 8 >>, << 2, S_relaxed, 8 >>, << 3, S_PackedSp, 12 >>,
      << 0, S_fast, 0 >>, << 2, S_relaxed, 4 >>, << 5, S_moderate, 13 >>,
      << -1, << >>, -3 >>, << 2, S_packed, 2 >> }

LetterName(k) == << Alphabet[Code("C") + k] >>

LongPoi(k, dur, type) ==
    [ name |-> LetterName(k), type |-> type, lat |-> 100 * k,
      duration_hours |-> dur, best_time |-> "morning", cost_inr |-> k ]

\* an optional small POI, n big ones, a small one
LongList(lead, n, durSmall, durBig) ==
    LET first == IF lead THEN << LongPoi(1, durSmall, S_food) >> ELSE << >>
        off == Len(first)
    IN  first \o [k \in 1..n |-> LongPoi(off + k, durBig, S_heritage)]
              \o << LongPoi(off + n + 1, durSmall, S_nature) >>

LongLists ==
    { LongList(lead, n, ds, db) :
        lead \in BOOLEAN, n \in (NBig - 2)..NBig,
        ds \in {450, 525, 570, 600}, db \in {600, 900} }

LongParams ==
    { << 2, S_relaxed, 5 >>, << 1, S_packed, 2 >>, << 2, S_moderate, 8 >>,
      << 1, S_relaxed, 9 >> }

BuilderInputs == (SmallLists \X SmallParams) \cup (LongLists \X LongParams)

----------------------------------------------------------------------------
(* itinerary_builder: the call *)

days_cap == DaysCap(duration_days)

daily_cap == DailyCap(daily_hours, pace)

NoPoi == 0

BInit ==
    /\ pois = << >> /\ duration_days = 0 /\ pace = << >> /\ daily_hours = 0
    /\ unique = << >> /\ ordered = << >> /\ days_out = << >> /\ used = {}
    /\ total_cost = 0 /\ warnings = << >>
    /\ d = 0 /\ activities = << >> /\ total_h = 0 /\ has_food = FALSE
    /\ prev = NoPoi /\ start_minutes = 0 /\ attempts_since_last_add = 0
    /\ cursor = 0 /\ via_overrun = {} /\ pc = "idle" /\ out = << >>

\* lines 164-172: the locals at the top of the loop over the days
StartDay(day) ==
    /\ d' = day
    /\ activities' = << >>
    /\ total_h' = 0
    /\ has_food' = FALSE
    /\ prev' = NoPoi
    /\ start_minutes' = 0
    /\ attempts_since_last_add' = 0
    /\ cursor' = 1
    /\ pc' = "scan"

\* lines 107-162: arguments, enrichment, de-duplication, ordering
Call(in_pois, in_days, in_pace, in_hours) ==
    /\ pc = "idle"
    /\ pois' = in_pois
    /\ duration_days' = in_days
    /\ pace' = in_pace
    /\ daily_hours' = in_hours
    /\ unique' = Unique(in_pois)
    /\ days_out' = << >>
    /\ used' = {}
    /\ total_cost' = 0
    /\ warnings' = << >>
    /\ via_overrun' = {}
    /\ UNCHANGED << tvars, fvars, evars, gvars, pvars, ovars, cvars >>
    /\ IF unique' = << >>
       THEN /\ out' = [ days |-> << >>,
                        metadata |-> [ total_pois |-> 0, total_cost_inr |-> 0,
                                       pace |-> in_pace,
                                       warnings |-> << [ kind |-> "No places provided." ] >> ] ]
            /\ pc' = "done"
            /\ ordered' = << >>
            /\ UNCHANGED << d, activities, total_h, has_food, prev, start_minutes,
                            attempts_since_last_add, cursor >>
       ELSE /\ ordered' = Ordered(unique')
            /\ out' = << >>
            /\ StartDay(1)

CallBuilder == \E in \in BuilderInputs : Call(in[1], in[2][1], in[2][2], in[2][3])

\* the candidate of this iteration of "for p in ordered"
Cand == ordered[cursor]

CandName == Strip(Cand.name)

\* lines 183-185
TravelMin == IF prev # NoPoi THEN _estimate_travel_min(ordered[prev], Cand) ELSE 0

\* line 188, in ticks
PotentialTotal == total_h + TravelMin * TicksPerMinute + Cand.duration_hours

AlreadyUsed_BlankOnly == CandName = << >>

\* line 176
AlreadyUsed == CandName = << >> \/ CandName \in used

OverCap_CurrentTotal == total_h > daily_cap

\* line 189
OverCap == PotentialTotal > daily_cap

NewTotal_NoTravel(travel_min, dh) == total_h + dh

\* line 208: total_h after the POI is added
NewTotal(travel_min, dh) == total_h + travel_min * TicksPerMinute + dh

OverrunAllowed_NoCounter ==
    /\ BelowMinHours(total_h, daily_cap)
    /\ Cand.duration_hours < 2 * TicksPerHour
    /\ 10 * PotentialTotal <= 11 * daily_cap

OverrunAllowed_AfterNine ==
    /\ attempts_since_last_add + 1 > 9
    /\ BelowMinHours(total_h, daily_cap)
    /\ Cand.duration_hours < 2 * TicksPerHour
    /\ 10 * PotentialTotal <= 11 * daily_cap

\* line 192-194 with the counter already incremented
OverrunAllowed ==
    /\ attempts_since_last_add + 1 > 10
    /\ BelowMinHours(total_h, daily_cap)
    /\ Cand.duration_hours < 2 * TicksPerHour
    /\ 10 * PotentialTotal <= 11 * daily_cap

\* the loop "for p in ordered" moves on, or is exhausted
Advance ==
    /\ cursor' = cursor + 1
    /\ pc' = IF cursor + 1 > Len(ordered) THEN "day_end" ELSE "scan"

\* lines 175-180: a blank or already used name
ScanSkip ==
    /\ pc = "scan"
    /\ AlreadyUsed
    /\ attempts_since_last_add' = attempts_since_last_add + 1
    /\ IF attempts_since_last_add + 1 > Len(ordered) * 2
       THEN pc' = "day_end" /\ cursor' = cursor
       ELSE Advance
    /\ UNCHANGED << pois, duration_days, pace, daily_hours, unique, ordered,
                    days_out, used, total_cost, warnings, d, activities, total_h,
                    has_food, prev, start_minutes, via_overrun, out,
                    tvars, fvars, evars, gvars, pvars, ovars, cvars >>

\* lines 189-199: over the cap and not let through
ScanReject ==
    /\ pc = "scan"
    /\ ~AlreadyUsed
    /\ OverCap
    /\ ~OverrunAllowed
    /\ attempts_since_last_add' = attempts_since_last_add + 1
    /\ Advance
    /\ UNCHANGED << pois, duration_days, pace, daily_hours, unique, ordered,
                    days_out, used, total_cost, warnings, d, activities, total_h,
                    has_food, prev, start_minutes, via_overrun, out,
                    tvars, fvars, evars, gvars, pvars, ovars, cvars >>

\* lines 201-244: the 9 PM check, then the POI joins the day
Place(overrun) ==
    LET travel_min == TravelMin
        dh == Cand.duration_hours
        potential_end_minutes == start_minutes + travel_min + DurMinutes(dh)
        cost == Cand.cost_inr
        new_total == NewTotal(travel_min, dh)
        act == [ time |-> TimeStr(start_minutes + travel_min),
                 poi |-> [ name |-> Cand.name, type |-> Cand.type,
                           duration_hours |-> dh, cost_inr |-> cost,
                           lat |-> Cand.lat ],
                 travel_time_from_previous |-> travel_min ]
    IN  IF 8 + potential_end_minutes \div 60 >= 21
        THEN /\ pc' = "day_end"
             /\ attempts_since_last_add' =
                    attempts_since_last_add + (IF overrun THEN 1 ELSE 0)
             /\ UNCHANGED << used, total_h, has_food, total_cost, start_minutes,
                             activities, prev, cursor, via_overrun >>
        ELSE /\ used' = used \cup {CandName}
             /\ total_h' = new_total
             /\ attempts_since_last_add' = 0
             /\ has_food' = (has_food \/ Lower(Cand.type) = S_food)
             /\ total_cost' = total_cost + cost
             /\ start_minutes' = start_minutes + travel_min + DurMinutes(dh)
             /\ activities' = Append(activities, act)
             /\ prev' = cursor
             /\ via_overrun' = IF overrun THEN via_overrun \cup {d} ELSE via_overrun
             /\ IF new_total >= daily_cap - 60 /\ ~BelowMinHours(new_total, daily_cap)
                THEN pc' = "day_end" /\ cursor' = cursor
                ELSE Advance

\* the POI fits under the cap
ScanAccept ==
    /\ pc = "scan"
    /\ ~AlreadyUsed
    /\ ~OverCap
    /\ Place(FALSE)
    /\ UNCHANGED << pois, duration_days, pace, daily_hours, unique, ordered,
                    days_out, warnings, d, out, tvars, fvars, evars, gvars, pvars, ovars, cvars >>

\* lines 192-195: over the cap, let through by the 10% allowance
ScanAcceptOverrun ==
    /\ pc = "scan"
    /\ ~AlreadyUsed
    /\ OverCap
    /\ OverrunAllowed
    /\ Place(TRUE)
    /\ UNCHANGED << pois, duration_days, pace, daily_hours, unique, ordered,
                    days_out, warnings, d, out, tvars, fvars, evars, gvars, pvars, ovars, cvars >>

\* round(total_h, 2), in hundredths of an hour
RoundHours(t) == Round(t, 3)

DayEnd_AllDays ==
    /\ pc = "day_end"
    /\ days_out' = Append(days_out,
                          [ day_number |-> d, activities |-> activities,
                            total_hours |-> RoundHours(total_h) ])
    /\ warnings' = warnings
            \o (IF ~has_food /\ activities # << >>
                THEN << [ kind |-> "No meal slot", day |-> d ] >> ELSE << >>)
            \o (IF activities # << >> /\ BelowMinHours(total_h, daily_cap)
                THEN << [ kind |-> "incomplete", day |-> d ] >> ELSE << >>)
    /\ IF d = days_cap
       THEN /\ pc' = "finish"
            /\ UNCHANGED << d, activities, total_h, has_food, prev, start_minutes,
                            attempts_since_last_add, cursor >>
       ELSE StartDay(d + 1)
    /\ UNCHANGED << pois, duration_days, pace, daily_hours, unique, ordered,
                    used, total_cost, via_overrun, out,
                    tvars, fvars, evars, gvars, pvars, ovars, cvars >>

DayEnd_EveryDay ==
    /\ pc = "day_end"
    /\ days_out' = Append(days_out,
                          [ day_number |-> d, activities |-> activities,
                            total_hours |-> RoundHours(total_h) ])
    /\ warnings' = warnings
            \o (IF ~has_food
                THEN << [ kind |-> "No meal slot", day |-> d ] >> ELSE << >>)
            \o (IF activities # << >> /\ BelowMinHours(total_h, daily_cap)
                THEN << [ kind |-> "incomplete", day |-> d ] >> ELSE << >>)
    /\ IF Cardinality(used) >= Len(unique) \/ d = days_cap
       THEN /\ pc' = "finish"
            /\ UNCHANGED << d, activities, total_h, has_food, prev, start_minutes,
                            attempts_since_last_add, cursor >>
       ELSE StartDay(d + 1)
    /\ UNCHANGED << pois, duration_days, pace, daily_hours, unique, ordered,
                    used, total_cost, via_overrun, out,
                    tvars, fvars, evars, gvars, pvars, ovars, cvars >>

\* lines 246-272: the day is closed
DayEnd ==
    /\ pc = "day_end"
    /\ days_out' = Append(days_out,
                          [ day_number |-> d, activities |-> activities,
                            total_hours |-> RoundHours(total_h) ])
    /\ warnings' = warnings
            \o (IF ~has_food /\ activities # << >>
                THEN << [ kind |-> "No meal slot", day |-> d ] >> ELSE << >>)
            \o (IF activities # << >> /\ BelowMinHours(total_h, daily_cap)
                THEN << [ kind |-> "incomplete", day |-> d ] >> ELSE << >>)
    /\ IF Cardinality(used) >= Len(unique) \/ d = days_cap
       THEN /\ pc' = "finish"
            /\ UNCHANGED << d, activities, total_h, has_food, prev, start_minutes,
                            attempts_since_last_add, cursor >>
       ELSE StartDay(d + 1)
    /\ UNCHANGED << pois, duration_days, pace, daily_hours, unique, ordered,
                    used, total_cost, via_overrun, out,
                    tvars, fvars, evars, gvars, pvars, ovars, cvars >>

\* lines 274-301: closing warnings and the returned value
Finish ==
    /\ pc = "finish"
    /\ LET empty_days == { k \in 1..Len(days_out) : days_out[k].activities = << >> }
           w1 == IF empty_days # {}
                 THEN << [ kind |-> "empty",
                           days |-> { days_out[k].day_number : k \in empty_days } ] >>
                 ELSE << >>
           w2 == IF Cardinality(used) < days_cap * 3
                 THEN << [ kind |-> "Insufficient places" ] >> ELSE << >>
       IN  /\ warnings' = warnings \o w1 \o w2
           /\ out' = [ days |-> days_out,
                       metadata |-> [ total_pois |-> Cardinality(used),
                                      total_cost_inr |-> total_cost,
                                      pace |-> pace,
                                      warnings |-> warnings \o w1 \o w2 ] ]
    /\ pc' = "done"
    /\ UNCHANGED << pois, duration_days, pace, daily_hours, unique, ordered,
                    days_out, used, total_cost, d, activities, total_h, has_food,
                    prev, start_minutes, attempts_since_last_add, cursor,
                    via_overrun, tvars, fvars, evars, gvars, pvars, ovars, cvars >>

BNext ==
    \/ CallBuilder
    \/ ScanSkip
    \/ ScanReject
    \/ ScanAccept
    \/ ScanAcceptOverrun
    \/ DayEnd
    \/ Finish

InitBuilder == BInit /\ TIdle /\ FIdle /\ EIdle /\ GIdle /\ PIdle /\ OIdle /\ CIdle

SpecBuilder == InitBuilder /\ [][BNext]_vars

----------------------------------------------------------------------------
(* itinerary_builder: properties *)

Returned == pc = "done"

\* the POI names of all activities of an itinerary, day after day
RECURSIVE ActivityNames(_)
ActivityNames(days) ==
    IF days = << >> THEN << >>
    ELSE [k \in 1..Len(Head(days).activities) |-> Head(days).activities[k].poi.name]
            \o ActivityNames(Tail(days))

AllBlank(list) == \A k \in 1..Len(list) : Strip(list[k].name) = << >>

\* C1: whenever the POI list has a non-blank name, no POI name occurs in
\* two activities of the returned itinerary (input repetitions included)
C1_NoDuplicateNames ==
    (Returned /\ ~AllBlank(pois)) =>
        LET names == ActivityNames(out.days)
        IN  \A i, j \in 1..Len(names) : i # j => names[i] # names[j]

\* C1 witness: the input repeats a name, the itinerary has two days and the
\* repeated name is scheduled
C1_Witness ==
    /\ Returned
    /\ Len(out.days) >= 2
    /\ \E i, j \in 1..Len(pois) :
          /\ i < j
          /\ pois[i].name = pois[j].name
          /\ \E k \in 1..Len(ActivityNames(out.days)) :
                ActivityNames(out.days)[k] = pois[i].name

\* the capacity the claims speak of: daily_hours * pace multiplier, in ticks
ClaimCap == daily_hours * 3 * PaceMult(pace)

KnownPace == pace \in {S_relaxed, S_moderate, S_packed}

\* C2: with daily_hours in 1..12 and a known pace every day of the output
\* has total_hours <= daily_hours * pace_multiplier + 1.0
C2_TotalWithinCapPlusOne ==
    (Returned /\ daily_hours \in 1..12 /\ KnownPace) =>
        \A k \in 1..Len(out.days) :
            out.days[k].total_hours * 3 <= ClaimCap + TicksPerHour

\* C2 witness: a day filled through the 10% allowance ends above the capacity
C2_Witness ==
    /\ Returned /\ daily_hours \in 1..12 /\ KnownPace
    /\ \E k \in 1..Len(out.days) :
          /\ out.days[k].day_number \in via_overrun
          /\ out.days[k].total_hours * 3 > ClaimCap

\* duration plus travel of the activities of a day, in ticks
RECURSIVE ActivityTicks(_)
ActivityTicks(acts) ==
    IF acts = << >> THEN 0
    ELSE Head(acts).poi.duration_hours
            + Head(acts).travel_time_from_previous * TicksPerMinute
            + ActivityTicks(Tail(acts))

\* the hundredths h of an hour nearest to t ticks (3 ticks each)
NearestHundredth(h, t) == 2 * Abs(3 * h - t) <= 3

\* C3: total_hours of every day is the sum of duration_hours +
\* travel_time_from_previous / 60 over its activities, rounded to 2 decimals;
\* a day without activities has total_hours 0
C3_TotalIsSum ==
    Returned =>
        \A k \in 1..Len(out.days) :
            /\ NearestHundredth(out.days[k].total_hours,
                                ActivityTicks(out.days[k].activities))
            /\ out.days[k].activities = << >> => out.days[k].total_hours = 0

\* C3 witness: a day of several activities with travel between them whose
\* sum is no whole number of hundredths, next to a day without activities
C3_Witness ==
    /\ Returned
    /\ \E k \in 1..Len(out.days) :
          /\ Len(out.days[k].activities) >= 2
          /\ ActivityTicks(out.days[k].activities) % 3 # 0
          /\ out.days[k].activities[2].travel_time_from_previous > 0
    /\ \E k \in 1..Len(out.days) : out.days[k].activities = << >>

\* C4 as claimed: no two activities carry names equal ignoring case
C4_NoDuplicateIgnoringCase ==
    Returned =>
        LET names == ActivityNames(out.days)
        IN  \A i, j \in 1..Len(names) :
                i # j => Lower(Strip(names[i])) # Lower(Strip(names[j]))

\* C5: an empty POI list, or one without any non-blank name, returns no days,
\* total_pois 0, total cost 0 and a non-empty warnings list
C5_EmptyInput ==
    (Returned /\ AllBlank(pois)) =>
        /\ out.days = << >>
        /\ out.metadata.total_pois = 0
        /\ out.metadata.total_cost_inr = 0
        /\ out.metadata.warnings # << >>

\* C5 witness: a non-empty list of blank names only was passed
C5_Witness == Returned /\ pois # << >> /\ AllBlank(pois)

\* the candidate is unused and adding it would exceed the capacity of the day
OverCapacityCase == pc = "scan" /\ ~AlreadyUsed /\ OverCap

\* fewer than max(3.0, 0.4 * capacity) hours are filled, the candidate lasts
\* under 2 hours and the total with it is at most 1.1 * capacity
OverrunClaimed ==
    /\ (total_h < 3 * TicksPerHour \/ 10 * total_h < 4 * daily_cap)
    /\ Cand.duration_hours < 2 * TicksPerHour
    /\ 10 * PotentialTotal <= 11 * daily_cap

\* the step adds the candidate to the day
CandAccepted ==
    /\ used' = used \cup { CandName }
    /\ Len(activities') = Len(activities) + 1
    /\ activities'[Len(activities')].poi.name = Cand.name
    /\ total_h' = PotentialTotal

\* the step leaves the day as it is and goes on to the next POI
CandRejected ==
    /\ used' = used /\ activities' = activities /\ total_h' = total_h
    /\ cursor' = cursor + 1

\* C14 as stated: an over-capacity candidate is accepted whenever fewer than
\* max(3.0, 0.4 * capacity) hours are filled, it lasts under 2 hours and the
\* total is at most 1.1 * capacity; in every other over-capacity case it is
\* rejected and the scan goes on
C14_OverrunWhenever ==
    [][ OverCapacityCase =>
          IF OverrunClaimed THEN CandAccepted ELSE CandRejected ]_vars

\* C14 amended: the candidate is accepted under these conditions only when
\* more than 10 POIs in a row, this one counted, have been skipped or
\* rejected since the last addition of the day; in every other over-capacity
\* case it is rejected and the scan goes on
C14_OverrunAfterTen ==
    [][ OverCapacityCase =>
          IF OverrunClaimed /\ attempts_since_last_add + 1 > 10
          THEN CandAccepted ELSE CandRejected ]_vars

\* C14 witness: the last activity of the open day came in over the capacity,
\* after the counter had passed 10
C14_Witness ==
    /\ pc \in { "scan", "day_end" }
    /\ d \in via_overrun
    /\ activities # << >>
    /\ attempts_since_last_add = 0
    /\ total_h > daily_cap
    /\ 10 * total_h <= 11 * daily_cap
    /\ Len(ordered) > 10

\* C14 second witness: an over-capacity candidate that meets the three
\* conditions before the counter has passed 10
C14_WitnessTooEarly ==
    OverCapacityCase /\ OverrunClaimed /\ attempts_since_last_add + 1 <= 10

----------------------------------------------------------------------------
(* travel_calculate: calls and properties *)

MaxLatSteps == 50

LatStepM == 50

TravelFromLats == {0, 350}

TravelModes == {"walk", "auto", "both"}

\* one call travel_calculate(from_lat, lon, to_lat, lon, mode)
TravelCall ==
    \E from_lat \in TravelFromLats, k \in 0..MaxLatSteps, mode \in TravelModes :
        /\ TIdle
        /\ tc_args' = << from_lat, k * LatStepM, mode >>
        /\ tc_result' = travel_calculate(from_lat, k * LatStepM)
        /\ UNCHANGED << bvars, fvars, evars, gvars, pvars, ovars, cvars >>

InitTravel == BInit /\ TIdle /\ FIdle /\ EIdle /\ GIdle /\ PIdle /\ OIdle /\ CIdle

SpecTravel == InitTravel /\ [][TravelCall]_vars

\* w is Python's round(n / q): nearest, a tie goes to the even neighbour
IsPyRound(w, n, q) ==
    /\ 2 * Abs(w * q - n) <= q
    /\ 2 * Abs(w * q - n) = q => w % 2 = 0

\* C10: for a distance of d km the walk minutes are 5 + round(60 d / 4), the
\* auto minutes 5 + round(60 d / 20), the mode is walk iff d <= 1.5, the note
\* is non-empty iff d > 1.5; equal coordinates give distance 0.0, auto 5
C10_TravelTimes ==
    tc_args # NoCall =>
        LET dist == Abs(tc_args[2] - tc_args[1])
        IN  /\ IsPyRound(tc_result.walk_time_minutes - 5, 60 * dist, 4 * 1000)
            /\ IsPyRound(tc_result.auto_time_minutes - 5, 60 * dist, 20 * 1000)
            /\ tc_result.recommended_mode = "walk" <=> dist <= 1500
            /\ tc_result.recommended_mode \in {"walk", "auto"}
            /\ tc_result.notes # "" <=> dist > 1500
            /\ tc_args[1] = tc_args[2] =>
                   tc_result.distance_km100 = 0 /\ tc_result.auto_time_minutes = 5

\* C10 witness: 2.5 km, where both minute counts are ties (37.5 and 7.5)
C10_Witness ==
    /\ tc_args # NoCall
    /\ Abs(tc_args[2] - tc_args[1]) = 2500
    /\ tc_result.walk_time_minutes = 43
    /\ tc_result.auto_time_minutes = 13
    /\ tc_result.recommended_mode = "auto"

----------------------------------------------------------------------------
(* feasibility_eval.py *)

\* str.split(): the maximal runs of non-blank characters
RECURSIVE Split(_)
Split(s) ==
    LET t == LStrip(s)
    IN  IF t = << >> THEN << >>
        ELSE LET n == IF \E i \in 1..Len(t) : IsSpace(t[i])
                      THEN (CHOOSE i \in 1..Len(t) :
                                IsSpace(t[i]) /\ \A j \in 1..(i - 1) : ~IsSpace(t[j])) - 1
                      ELSE Len(t)
             IN  << SubSeq(t, 1, n) >> \o Split(SubSeq(t, n + 1, Len(t)))

\* str.replace(":", " ")
ColonsToSpaces(s) == [i \in 1..Len(s) |-> IF s[i] = ":" THEN " " ELSE s[i]]

\* int(s) succeeds: an optional sign and one digit or more
IsIntLiteral(s) ==
    LET digits == IF s # << >> /\ Head(s) = "-" THEN Tail(s) ELSE s
    IN  digits # << >> /\ \A i \in 1..Len(digits) : IsDigit(digits[i])

RECURSIVE DigitsValue(_)
DigitsValue(s) ==
    IF s = << >> THEN 0
    ELSE 10 * DigitsValue(SubSeq(s, 1, Len(s) - 1)) + DigitValue[s[Len(s)]]

IntValue(s) == IF Head(s) = "-" THEN 0 - DigitsValue(Tail(s)) ELSE DigitsValue(s)

S_AM == << "A", "M" >>

S_PM == << "P", "M" >>

\* what _parse_time returns when int() or parts[0] raises
ParseFailed == 0

\* lines 20-24: the minutes of an hour and a minute read from the text s
HourMinute(s, hour, minute) ==
    (IF Contains(s, S_PM) /\ hour # 12 THEN hour + 12
     ELSE IF Contains(s, S_AM) /\ hour = 12 THEN 0
     ELSE hour) * 60 + minute

\* lines 18-19: int(parts[0]) and int(parts[1]), where either may raise
ParseParts(s, parts) ==
    IF parts = << >> \/ ~IsIntLiteral(parts[1]) THEN ParseFailed
    ELSE IF Len(parts) > 1 /\ ~IsIntLiteral(parts[2]) THEN ParseFailed
    ELSE HourMinute(s, IntValue(parts[1]),
                    IF Len(parts) > 1 THEN IntValue(parts[2]) ELSE 0)

\* line 17, on the stripped upper-case text
ParseUpper(s) == ParseParts(s, Split(ColonsToSpaces(s)))

_parse_time(time_str) ==
    IF time_str = << >> THEN 0 ELSE ParseUpper(Upper(Strip(time_str)))

\* line 107
FoodTypes == { S_food, << "r", "e", "s", "t", "a", "u", "r", "a", "n", "t" >>, << "d", "i", "n", "i", "n", "g" >>, << "c", "a", "f", "e" >> }

\* line 109
MealNames ==
    { << "l", "u", "n", "c", "h" >>, << "d", "i", "n", "n", "e", "r" >>, << "b", "r", "e", "a", "k", "f", "a", "s", "t" >>, << "l", "u", "n", "c", "h", " ", "b", "r", "e", "a", "k" >>, << "d", "i", "n", "n", "e", "r", " ", "b", "r", "e", "a", "k" >>,
      << "b", "r", "e", "a", "k", " ", "f", "o", "r", " ", "l", "u", "n", "c", "h" >>, << "b", "r", "e", "a", "k", " ", "f", "o", "r", " ", "d", "i", "n", "n", "e", "r" >> }

\* line 114
MealKeywords ==
    { << "c", "a", "f", "e" >>, << "c", "o", "f", "f", "e", "e" >>, << "c", "o", "f", "f", "e", "e", " ", "b", "r", "e", "a", "k" >>, << "l", "u", "n", "c", "h" >>, << "d", "i", "n", "n", "e", "r" >>, << "b", "r", "e", "a", "k", "f", "a", "s", "t" >>,
      << "r", "e", "s", "t", "a", "u", "r", "a", "n", "t" >>, << "m", "e", "a", "l" >> }

\* lines 105-116: the activity counts as a meal
IsFoodActivity(poi) ==
    LET poi_type == Lower(Get(poi, "type", << >>))
        poi_name == Lower(Get(poi, "name", << >>))
    IN  \/ poi_type \in FoodTypes
        \/ poi_name \in MealNames
        \/ \E kw \in MealKeywords : Contains(poi_name, kw)

\* line 75: poi.duration_hours, or the activity's own when that is 0 or absent
ActDuration(act) ==
    LET poi == Get(act, "poi", << >>)
    IN  IF Get(poi, "duration_hours", 0) # 0 THEN poi.duration_hours
        ELSE Get(act, "duration_hours", 0)

\* line 53-54: pace.lower(), no clamp of daily_hours; in ticks
FeasCap(hours, fpace) ==
    LET key == Lower(fpace)
        mult == IF key = S_relaxed THEN 60
                ELSE IF key = S_moderate THEN 75
                ELSE IF key = S_packed THEN 90
                ELSE 75
    IN  hours * 3 * mult

FeasTolerance == 150

NinePmMinutes == 1260

MealHours == 1200

ExceedsLimit_NoTolerance(day_total, cap) == day_total > cap

\* line 119
ExceedsLimit(day_total, cap) == day_total > cap + FeasTolerance

BeyondNinePm_AtNine(end_minutes) == end_minutes >= NinePmMinutes

\* line 97
BeyondNinePm(end_minutes) == end_minutes > NinePmMinutes

\* line 90-91
Overlaps(prev_end_time, start) ==
    (IF start < prev_end_time THEN prev_end_time - start ELSE 0) > 15

\* lines 73-116: one activity that starts at start (0 when the time could not
\* be read); st carries the locals of the loop over a day
FeasActAt(st, act, act_idx, day_idx, start, end_minutes) ==
    LET travel_min == Get(act, "travel_time_from_previous", 0)
        i1 == IF act_idx > 1 /\ travel_min = 0
              THEN << [ kind |-> "Missing travel time", day |-> day_idx,
                        activity |-> act_idx ] >>
              ELSE << >>
        i2 == IF start = 0 /\ Get(act, "time", << >>) # << >>
              THEN << [ kind |-> "Could not parse time", day |-> day_idx,
                        activity |-> act_idx ] >>
              ELSE << >>
        i3 == IF BeyondNinePm(end_minutes)
              THEN << [ kind |-> "Extends beyond 9 PM", day |-> day_idx,
                        activity |-> act_idx ] >>
              ELSE << >>
    IN  [ issues |-> st.issues \o i1 \o i2 \o i3,
          time_conflicts |->
              st.time_conflicts \o
                  (IF start > 0 /\ Overlaps(st.prev_end_time, start)
                   THEN << [ kind |-> "Time conflict", day |-> day_idx,
                             activity |-> act_idx ] >>
                   ELSE << >>),
          prev_end_time |-> IF start > 0 THEN end_minutes ELSE st.prev_end_time,
          all_passed |-> st.all_passed /\ ~BeyondNinePm(end_minutes),
          day_total_hours |->
              st.day_total_hours + ActDuration(act) + travel_min * TicksPerMinute,
          has_food |-> st.has_food \/ IsFoodActivity(Get(act, "poi", << >>)) ]

\* line 98: start + int(round(duration * 60)) + travel_min
FeasActFrom(st, act, act_idx, day_idx, start) ==
    FeasActAt(st, act, act_idx, day_idx, start,
              start + DurMinutes(ActDuration(act))
                    + Get(act, "travel_time_from_previous", 0))

FeasAct(st, act, act_idx, day_idx) ==
    FeasActFrom(st, act, act_idx, day_idx, _parse_time(Get(act, "time", << >>)))

RECURSIVE FeasActs(_, _, _, _)
FeasActs(st, acts, act_idx, day_idx) ==
    IF act_idx > Len(acts) THEN st
    ELSE FeasActs(FeasAct(st, acts[act_idx], act_idx, day_idx), acts,
                  act_idx + 1, day_idx)

\* lines 118-133: the end of a day whose activities left the locals st
FeasDayEnd(ev, st, day_idx, over) ==
    [ issues |->
          st.issues
              \o (IF over
                  THEN << [ kind |-> "Exceeds daily limit", day |-> day_idx ] >>
                  ELSE << >>)
              \o (IF ~st.has_food /\ st.day_total_hours > MealHours
                  THEN << [ kind |-> "No meal break", day |-> day_idx ] >>
                  ELSE << >>)
              \o st.time_conflicts,
      all_passed |-> st.all_passed /\ ~over /\ st.time_conflicts = << >>,
      total_hours |-> ev.total_hours + st.day_total_hours ]

FeasDayOver(ev, st, day_idx, cap) ==
    FeasDayEnd(ev, st, day_idx, ExceedsLimit(st.day_total_hours, cap))

\* lines 60-133: one day; ev carries issues, all_passed and total_hours
FeasDay(ev, day, day_idx, cap) ==
    IF Get(day, "activities", << >>) = << >>
    THEN [ ev EXCEPT !.issues = Append(@, [ kind |-> "No activities scheduled",
                                             day |-> day_idx ]),
                     !.all_passed = FALSE ]
    ELSE FeasDayOver(ev,
                     FeasActs([ issues |-> ev.issues, time_conflicts |-> << >>,
                                prev_end_time |-> 8 * 60,
                                all_passed |-> ev.all_passed,
                                day_total_hours |-> 0, has_food |-> FALSE ],
                              day.activities, 1, day_idx),
                     day_idx, cap)

RECURSIVE FeasDays(_, _, _, _)
FeasDays(ev, itinerary, day_idx, cap) ==
    IF day_idx > Len(itinerary) THEN ev
    ELSE FeasDays(FeasDay(ev, itinerary[day_idx], day_idx, cap), itinerary,
                  day_idx + 1, cap)

FeasScore_WarningsFree(all_passed, issues) ==
    IF all_passed THEN 100 ELSE Max(0, 100 - 15 * Len(issues))

\* lines 136-142, in hundredths
FeasScore(all_passed, issues) ==
    IF all_passed /\ issues = << >> THEN 100
    ELSE IF all_passed THEN 80
    ELSE Max(0, 100 - 15 * Len(issues))

\* lines 144-154
FeasReport(ev, cap, fpace, days_evaluated) ==
    [ passed |-> ev.all_passed,
      score |-> FeasScore(ev.all_passed, ev.issues),
      total_hours |-> RoundHours(ev.total_hours),
      issues |-> ev.issues,
      details |-> [ daily_cap |-> cap, pace |-> fpace,
                    days_evaluated |-> days_evaluated ] ]

FeasEvaluate(itinerary, cap, fpace) ==
    FeasReport(FeasDays([ issues |-> << >>, all_passed |-> TRUE, total_hours |-> 0 ],
                        itinerary, 1, cap),
               cap, fpace, Len(itinerary))

evaluate_feasibility(itinerary, hours, fpace) ==
    FeasEvaluate(itinerary, FeasCap(hours, fpace), fpace)

----------------------------------------------------------------------------
(* evaluate_feasibility: calls and properties *)

MaxActs == 2

FeasActivity(time, name, type, dur, travel) ==
    [ time |-> time,
      poi |-> [ name |-> name, type |-> type, duration_hours |-> dur ],
      travel_time_from_previous |-> travel ]

F_fort == FeasActivity(<< "8", ":", "0", "0", " ", "A", "M" >>, << "F", "o", "r", "t" >>, S_heritage, 900, 0)

F_cafe == FeasActivity(<< "1", "1", ":", "1", "5", " ", "A", "M" >>, << "L", "a", "k", "e", " ", "C", "a", "f", "e" >>, S_nature, 975, 15)

F_long == FeasActivity(<< >>, << "T", "r", "e", "k" >>, S_nature, 3000, 0)

F_late == FeasActivity(<< "7", ":", "0", "0", " ", "P", "M" >>, << "G", "h", "a", "t" >>, S_heritage, 600, 0)

F_midnight == FeasActivity(<< "1", "2", ":", "0", "0", " ", "A", "M" >>, << "B", "a", "z", "a", "a", "r" >>, S_Food, 450, 15)

F_nominutes == FeasActivity(<< "2", " ", "P", "M" >>, << "M", "u", "s", "e", "u", "m" >>, S_heritage, 300, 0)

F_overlap == FeasActivity(<< "1", "0", ":", "3", "0", " ", "A", "M" >>, << "G", "a", "r", "d", "e", "n" >>, S_nature, 990, 15)

\* 8:30 PM to 9:30 PM
F_night == FeasActivity(<< "8", ":", "3", "0", " ", "P", "M" >>, << "G", "h", "a", "t", " ", "V", "i", "e", "w" >>, S_Food, 300, 0)

F_noon == FeasActivity(<< "1", "2", " ", "P", "M" >>, << "T", "h", "a", "l", "i" >>, S_Food, 300, 15)

FeasPool ==
    { F_fort, F_cafe, F_long, F_late, F_night, F_midnight, F_nominutes, F_noon, F_overlap }

FeasDayOf(acts) == [ day_number |-> 1, activities |-> acts ]

FeasDayPool == { FeasDayOf(acts) : acts \in UNION { [1..n -> FeasPool] : n \in 0..MaxActs } }

\* 8 h at moderate pace: exactly the capacity of 6 h plus the 0.5 h tolerance
BoundaryDay == FeasDayOf(<< F_fort, F_cafe >>)

\* the days without activities at the end of the longest itineraries
EmptyDays == 6

FeasItineraries ==
    { << day >> : day \in FeasDayPool }
        \cup { << BoundaryDay, day >> : day \in FeasDayPool }
        \cup { << day, FeasDayOf(<< >>) >> : day \in FeasDayPool }
        \cup { << day >> \o [k \in 1..EmptyDays |-> FeasDayOf(<< >>)] : day \in FeasDayPool }

\* (daily_hours, pace)
FeasParams ==
    { << 8, S_moderate >>, << 8, << "R", "e", "l", "a", "x", "e", "d" >> >>, << 10, S_packed >>, << 8, S_fast >> }

FeasCall ==
    \E itinerary \in FeasItineraries, prm \in FeasParams :
        /\ FIdle
        /\ fe_args' = << itinerary, prm[1], prm[2] >>
        /\ fe_result' = evaluate_feasibility(itinerary, prm[1], prm[2])
        /\ UNCHANGED << bvars, tvars, evars, gvars, pvars, ovars, cvars >>

InitFeasibility == BInit /\ TIdle /\ FIdle /\ EIdle /\ GIdle /\ PIdle /\ OIdle /\ CIdle

SpecFeasibility == InitFeasibility /\ [][FeasCall]_vars

\* the multiplier of a pace as the claims state it, in percent
ClaimMult(p) ==
    IF Lower(p) = S_relaxed THEN 60 ELSE IF Lower(p) = S_packed THEN 90 ELSE 75

\* the day exceeds daily_hours * pace_multiplier by more than 0.5 h
DayOverLimit(day, hours, p) ==
    ActivityTicks(day.activities) > hours * 3 * ClaimMult(p) + TicksPerHour \div 2

HasIssue(report, kind, day_idx) ==
    \E k \in 1..Len(report.issues) :
        report.issues[k].kind = kind /\ report.issues[k].day = day_idx

\* C6: a day whose durations and travel times sum to more than the capacity
\* plus 0.5 h makes passed = False with an issue naming that day and its
\* limit; a day within capacity + 0.5 h gets no such issue
C6_DailyLimit ==
    fe_args # NoCall =>
        \A k \in 1..Len(fe_args[1]) :
            IF DayOverLimit(fe_args[1][k], fe_args[2], fe_args[3])
            THEN ~fe_result.passed /\ HasIssue(fe_result, "Exceeds daily limit", k)
            ELSE ~HasIssue(fe_result, "Exceeds daily limit", k)

\* C6 witness: day 1 sits exactly at capacity + 0.5 h and is not flagged, day 2
\* is one activity of 10 h against a capacity of 6 h
C6_Witness ==
    /\ fe_args # NoCall
    /\ fe_args[1] = << BoundaryDay, FeasDayOf(<< F_long >>) >>
    /\ fe_args[2] = 8 /\ fe_args[3] = S_moderate
    /\ ActivityTicks(BoundaryDay.activities) = 8 * 225 + 150
    /\ ~fe_result.passed
    /\ HasIssue(fe_result, "Exceeds daily limit", 2)
    /\ ~HasIssue(fe_result, "Exceeds daily limit", 1)

\* the activity act_idx of day day_idx has an issue of the kind
HasActIssue(report, kind, day_idx, act_idx) ==
    \E k \in 1..Len(report.issues) :
        /\ report.issues[k].kind = kind
        /\ report.issues[k].day = day_idx
        /\ "activity" \in DOMAIN report.issues[k]
        /\ report.issues[k].activity = act_idx

\* the end of an activity in minutes since midnight: the parsed start, the
\* duration in minutes and the travel time
ActivityEnd(act) ==
    _parse_time(Get(act, "time", << >>))
        + Round(ActDuration(act), TicksPerMinute)
        + Get(act, "travel_time_from_previous", 0)

\* C15 as stated: every activity whose end reaches or exceeds 21:00 is
\* flagged 'Extends beyond 9 PM' and makes passed = False, an end of exactly
\* 21:00 included
C15_ReachesNinePm ==
    fe_args # NoCall =>
        \A k \in 1..Len(fe_args[1]) : \A j \in 1..Len(fe_args[1][k].activities) :
            ActivityEnd(fe_args[1][k].activities[j]) >= 21 * 60 =>
                /\ HasActIssue(fe_result, "Extends beyond 9 PM", k, j)
                /\ ~fe_result.passed

\* C15 amended: an activity is flagged 'Extends beyond 9 PM', and passed is
\* False, exactly when its end is later than 21:00; an end of exactly 21:00
\* is not flagged
C15_BeyondNinePm ==
    fe_args # NoCall =>
        \A k \in 1..Len(fe_args[1]) : \A j \in 1..Len(fe_args[1][k].activities) :
            IF ActivityEnd(fe_args[1][k].activities[j]) > 21 * 60
            THEN /\ HasActIssue(fe_result, "Extends beyond 9 PM", k, j)
                 /\ ~fe_result.passed
            ELSE ~HasActIssue(fe_result, "Extends beyond 9 PM", k, j)

\* C15 witness: one activity from 7:00 PM to exactly 9:00 PM passes without
\* the issue
C15_Witness ==
    /\ fe_args # NoCall
    /\ fe_args[1] = << FeasDayOf(<< F_late >>) >>
    /\ ActivityEnd(F_late) = 21 * 60
    /\ ~HasActIssue(fe_result, "Extends beyond 9 PM", 1, 1)
    /\ fe_result.passed

\* C15 second witness: an activity from 8:30 PM to 9:30 PM fails with it
C15_WitnessLater ==
    /\ fe_args # NoCall
    /\ fe_args[1] = << FeasDayOf(<< F_night >>) >>
    /\ HasActIssue(fe_result, "Extends beyond 9 PM", 1, 1)
    /\ ~fe_result.passed

----------------------------------------------------------------------------
(* edit_correctness_eval.py *)

\* the number of blanks of s from position i on (\s*)
RECURSIVE BlanksAt(_, _)
BlanksAt(s, i) == IF i <= Len(s) /\ IsSpace(s[i]) THEN 1 + BlanksAt(s, i + 1) ELSE 0

\* the number of digits of s from position i on (\d*)
RECURSIVE DigitsAt(_, _)
DigitsAt(s, i) == IF i <= Len(s) /\ IsDigit(s[i]) THEN 1 + DigitsAt(s, i + 1) ELSE 0

\* the word w stands in s at position i
WordAt(s, i, w) == i >= 1 /\ i + Len(w) - 1 <= Len(s) /\ SubSeq(s, i, i + Len(w) - 1) = w

S_day == << "d", "a", "y" >>

\* re.findall(r"day\s*(\d+)", msg): matches are taken left to right and do
\* not overlap; the numbers found from position i on
RECURSIVE DayNumbersFrom(_, _)
DayNumbersFrom(msg, i) ==
    IF i > Len(msg) THEN {}
    ELSE IF WordAt(msg, i, S_day)
         THEN LET j == i + 3 + BlanksAt(msg, i + 3)
                  n == DigitsAt(msg, j)
              IN  IF n > 0
                  THEN { DigitsValue(SubSeq(msg, j, j + n - 1)) }
                          \cup DayNumbersFrom(msg, j + n)
                  ELSE DayNumbersFrom(msg, i + 1)
         ELSE DayNumbersFrom(msg, i + 1)

\* None of Python
None == << "None" >>

\* the None that _intended_days_from_message returns: it never returns an
\* empty set, and its caller treats an empty set as it treats None
NoDays == {}

\* lines 30-39; the message is a str or None
_intended_days_from_message(user_edit_message) ==
    IF user_edit_message = None \/ Strip(user_edit_message) = << >> THEN NoDays
    ELSE LET matches == DayNumbersFrom(Lower(Strip(user_edit_message)), 1)
         IN  IF matches = {} THEN NoDays ELSE matches

\* re.search of  w \s* day  in msg
WordThenDay(msg, w) ==
    \E i \in 1..Len(msg) :
        WordAt(msg, i, w) /\ WordAt(msg, i + Len(w) + BlanksAt(msg, i + Len(w)), S_day)

\* line 94: \d+\s*days?|more\s*days?|add\s*(a\s*)?day|extra\s*day
AsksMoreDays(msg) ==
    \/ \E i \in 1..Len(msg) :
          IsDigit(msg[i]) /\ WordAt(msg, i + 1 + BlanksAt(msg, i + 1), S_day)
    \/ WordThenDay(msg, << "m", "o", "r", "e" >>)
    \/ WordThenDay(msg, << "a", "d", "d" >>)
    \/ \E i \in 1..Len(msg) :
          /\ WordAt(msg, i, << "a", "d", "d" >>)
          /\ LET j == i + 3 + BlanksAt(msg, i + 3)
             IN  WordAt(msg, j, << "a" >>)
                    /\ WordAt(msg, j + 1 + BlanksAt(msg, j + 1), S_day)
    \/ WordThenDay(msg, << "e", "x", "t", "r", "a" >>)

\* line 95: fewer\s*days?|less\s*days?|1\s*day|single\s*day
AsksFewerDays(msg) ==
    \/ WordThenDay(msg, << "f", "e", "w", "e", "r" >>)
    \/ WordThenDay(msg, << "l", "e", "s", "s" >>)
    \/ WordThenDay(msg, << "1" >>)
    \/ WordThenDay(msg, << "s", "i", "n", "g", "l", "e" >>)

\* lines 42-50
RECURSIVE PoiNamesOf(_)
PoiNamesOf(acts) ==
    IF acts = << >> THEN << >>
    ELSE LET name == Strip(Get(Get(Head(acts), "poi", << >>), "name", << >>))
         IN  (IF name # << >> THEN << Lower(name) >> ELSE << >>)
                \o PoiNamesOf(Tail(acts))

_poi_names_for_day(day) == PoiNamesOf(Get(day, "activities", << >>))

\* the names of a day as written, only stripped
RECURSIVE RawNamesOf(_)
RawNamesOf(acts) ==
    IF acts = << >> THEN << >>
    ELSE LET name == Strip(Get(Get(Head(acts), "poi", << >>), "name", << >>))
         IN  (IF name # << >> THEN << name >> ELSE << >>) \o RawNamesOf(Tail(acts))

\* a comparison that tells "City Palace" from "city palace"
DayChanged_CaseSensitive(orig_day, edited_day) ==
    RawNamesOf(Get(orig_day, "activities", << >>))
        # RawNamesOf(Get(edited_day, "activities", << >>))

\* line 110
DayChanged(orig_day, edited_day) ==
    _poi_names_for_day(orig_day) # _poi_names_for_day(edited_day)

\* lines 99-113: the issues about days the request did not mention
RECURSIVE UnintendedFrom(_, _, _, _)
UnintendedFrom(original, edited, intended_days, day_num) ==
    IF day_num > Len(original) THEN << >>
    ELSE (IF /\ day_num \notin intended_days
             /\ day_num <= Len(edited)
             /\ DayChanged(original[day_num], edited[day_num])
          THEN << [ kind |-> "Unintended change elsewhere", day |-> day_num ] >>
          ELSE << >>)
            \o UnintendedFrom(original, edited, intended_days, day_num + 1)

\* lines 116-121; known_pois is a list, None being the empty list (line 117
\* treats the two alike)
KnownPoiNames(known_pois) ==
    IF known_pois = << >> THEN {}
    ELSE { Lower(Strip(known_pois[k].name)) :
             k \in { j \in 1..Len(known_pois) : Strip(known_pois[j].name) # << >> } }

\* tuple order of (start, end, name)
TimesLess(a, b) ==
    \/ a[1] < b[1]
    \/ a[1] = b[1] /\ a[2] < b[2]
    \/ a[1] = b[1] /\ a[2] = b[2] /\ StrLess(a[3], b[3])

RECURSIVE InsertTime(_, _)
InsertTime(sorted, x) ==
    IF sorted = << >> THEN << x >>
    ELSE IF TimesLess(x, Head(sorted)) THEN << x >> \o sorted
    ELSE << Head(sorted) >> \o InsertTime(Tail(sorted), x)

\* list.sort() of activity_times
RECURSIVE SortTimes(_)
SortTimes(times) ==
    IF times = << >> THEN << >>
    ELSE InsertTime(SortTimes(SubSeq(times, 1, Len(times) - 1)), times[Len(times)])

\* lines 137-169: one activity of an edited day, named poi_name, that starts
\* at start (0 when the time could not be read)
EditActAt(st, act, act_idx, day_idx, known_poi_names, poi_name, start) ==
    [ issues |->
          st.issues
              \o (IF poi_name = << >>
                  THEN << [ kind |-> "Missing POI name", day |-> day_idx,
                            activity |-> act_idx ] >>
                  ELSE IF known_poi_names # {} /\ Lower(poi_name) \notin known_poi_names
                  THEN << [ kind |-> "not found in known POIs", day |-> day_idx,
                            activity |-> act_idx ] >>
                  ELSE << >>)
              \o (IF Get(act, "time", << >>) = << >>
                  THEN IF poi_name = << >> \/ ActDuration(act) <= 0
                       THEN << [ kind |-> "Missing time", day |-> day_idx,
                                 activity |-> act_idx ] >>
                       ELSE << >>
                  ELSE IF start = 0
                       THEN << [ kind |-> "Invalid time format", day |-> day_idx,
                                 activity |-> act_idx ] >>
                       ELSE << >>),
      activity_times |->
          IF Get(act, "time", << >>) # << >> /\ start # 0
          THEN Append(st.activity_times,
                      << start,
                         start + DurMinutes(ActDuration(act))
                               + Get(act, "travel_time_from_previous", 0),
                         IF poi_name # << >> THEN poi_name
                         ELSE << "A", "c", "t", "i", "v", "i", "t", "y", " " >> \o DecStr(act_idx) >>)
          ELSE st.activity_times ]

EditAct(st, act, act_idx, day_idx, known_poi_names) ==
    EditActAt(st, act, act_idx, day_idx, known_poi_names,
              Strip(Get(Get(act, "poi", << >>), "name", << >>)),
              _parse_time(Get(act, "time", << >>)))

RECURSIVE EditActs(_, _, _, _, _)
EditActs(st, acts, act_idx, day_idx, known_poi_names) ==
    IF act_idx > Len(acts) THEN st
    ELSE EditActs(EditAct(st, acts[act_idx], act_idx, day_idx, known_poi_names),
                  acts, act_idx + 1, day_idx, known_poi_names)

\* lines 172-181: conflicts of neighbours in the sorted times
RECURSIVE TimeConflicts(_, _, _)
TimeConflicts(times, i, day_idx) ==
    IF i >= Len(times) THEN << >>
    ELSE (IF times[i][2] > times[i + 1][1] /\ times[i][2] - times[i + 1][1] > 15
          THEN << [ kind |-> "Time conflict", day |-> day_idx,
                    overlap |-> times[i][2] - times[i + 1][1] ] >>
          ELSE << >>)
            \o TimeConflicts(times, i + 1, day_idx)

\* lines 171-181: the issues of a day whose activities left the locals st
EditDayEnd(st, day_idx) ==
    st.issues \o TimeConflicts(SortTimes(st.activity_times), 1, day_idx)

\* lines 124-181: the structural checks of the edited days
RECURSIVE EditDays(_, _, _)
EditDays(edited, day_idx, known_poi_names) ==
    IF day_idx > Len(edited) THEN << >>
    ELSE EditDayEnd(EditActs([ issues |-> << >>, activity_times |-> << >> ],
                             Get(edited[day_idx], "activities", << >>), 1, day_idx,
                             known_poi_names),
                    day_idx)
            \o EditDays(edited, day_idx + 1, known_poi_names)

\* lines 90-97: the day count changed by more than half and was not asked for
DayCountIssue(original, edited, user_edit_message) ==
    LET o_days == Len(original)
        e_days == Len(edited)
        msg_lower == IF user_edit_message = None THEN << >>
                     ELSE Lower(Strip(user_edit_message))
    IN  IF /\ o_days > 0
           /\ e_days # 0
           /\ 2 * Abs(e_days - o_days) > o_days
           /\ ~(AsksMoreDays(msg_lower) \/ AsksFewerDays(msg_lower))
        THEN << [ kind |-> "Day count changed significantly" ] >>
        ELSE << >>

\* lines 184-189, in hundredths
EditScore(issues) == IF issues = << >> THEN 100 ELSE Max(0, 100 - 10 * Len(issues))

\* lines 183-203
EditReport(issues, o_days, e_days, user_edit_message) ==
    [ passed |-> issues = << >>,
      score |-> EditScore(issues),
      issues |-> issues,
      details |->
          (IF user_edit_message # None
           THEN [ user_edit_message |-> user_edit_message ] ELSE << >>)
          @@ [ original_days |-> o_days, edited_days |-> e_days,
               issues_count |-> Len(issues) ] ]

\* lines 99-113
UnintendedIssues(original, edited, intended_days) ==
    IF intended_days # NoDays
    THEN UnintendedFrom(original, edited, intended_days, 1) ELSE << >>

evaluate_edit_correctness(original, edited, known_pois, user_edit_message) ==
    EditReport(
        (IF Len(edited) = 0 THEN << [ kind |-> "Edited itinerary has no days" ] >>
         ELSE << >>)
        \o DayCountIssue(original, edited, user_edit_message)
        \o UnintendedIssues(original, edited,
                            _intended_days_from_message(user_edit_message))
        \o EditDays(edited, 1, KnownPoiNames(known_pois)),
        Len(original), Len(edited), user_edit_message)

----------------------------------------------------------------------------
(* evaluate_edit_correctness: calls *)

MaxEditActs == 2

EditActivity(time, name, dur, travel) ==
    [ time |-> time,
      poi |-> [ name |-> name, duration_hours |-> dur ],
      travel_time_from_previous |-> travel ]

\* 9:00 to 10:30
E_palace == EditActivity(<< "9", ":", "0", "0", " ", "A", "M" >>, << "C", "i", "t", "y", " ", "P", "a", "l", "a", "c", "e" >>, 450, 0)

\* the same place, written in another case and with a trailing blank
E_palaceLc == EditActivity(<< "9", ":", "0", "0", " ", "A", "M" >>, << "c", "i", "t", "y", " ", "p", "a", "l", "a", "c", "e", " " >>, 450, 0)

\* 11:00 to 12:15
E_lake == EditActivity(<< "1", "1", ":", "0", "0", " ", "A", "M" >>, << "L", "a", "k", "e" >>, 300, 15)

\* 10:00 to 11:15: 30 minutes into E_palace, 15 minutes into E_lake
E_monsoon == EditActivity(<< "1", "0", ":", "0", "0", " ", "A", "M" >>, << "M", "o", "n", "s", "o", "o", "n" >>, 300, 15)

\* an activity of a prose itinerary: a name and a duration, no time
E_notime == [ poi |-> [ name |-> << "B", "a", "g", "h" >>, duration_hours |-> 300 ] ]

E_noname == EditActivity(<< "1", ":", "0", "0", " ", "P", "M" >>, << >>, 300, 15)

E_badtime == EditActivity(<< "n", "o", "o", "n" >>, << "G", "h", "a", "t" >>, 300, 15)

\* 12:00 to 14:15, the time written without minutes
E_noon == EditActivity(<< "1", "2", " ", "P", "M" >>, << "T", "h", "a", "l", "i" >>, 600, 15)

EditPool ==
    { E_palace, E_palaceLc, E_lake, E_monsoon, E_notime, E_noname, E_badtime, E_noon }

EditDayOf(acts) == [ activities |-> acts ]

EditDayPool == { EditDayOf(acts) : acts \in UNION { [1..n -> EditPool] : n \in 0..MaxEditActs } }

DayA == EditDayOf(<< E_palace, E_lake >>)

DayB == EditDayOf(<< E_monsoon >>)

EditOriginals == { << DayA, DayB >>, << DayA >> }

EditEdited ==
    { << >> }
        \cup { << x >> : x \in EditDayPool }
        \cup { << x, DayB >> : x \in EditDayPool }
        \cup { << DayA, x >> : x \in EditDayPool }
        \cup { << DayA, DayB, x >> : x \in EditDayPool }

EditMessages ==
    { None,
      << "A", "d", "d", " ", "M", "o", "n", "s", "o", "o", "n", " ", "t", "o", " ", "d", "a", "y", " ", "2" >>,
      << "m", "a", "k", "e", " ", "i", "t", " ", "m", "o", "r", "e", " ", "r", "e", "l", "a", "x", "e", "d" >>,
      << "s", "w", "a", "p", " ", "D", "a", "y", " ", "1", " ", "a", "n", "d", " ", "d", "a", "y", "2" >>,
      << "a", "d", "d", " ", "a", " ", "d", "a", "y" >>,
      << "c", "h", "a", "n", "g", "e", " ", "t", "o", "d", "a", "y", " ", "3" >>,
      << "p", "l", "a", "n", " ", "4", " ", "d", "a", "y", "s" >> }

EditKnown ==
    { << >>,
      << [ name |-> << "C", "i", "t", "y", " ", "P", "a", "l", "a", "c", "e" >> ], [ name |-> << " ", "l", "a", "k", "e" >> ], [ name |-> << "M", "o", "n", "s", "o", "o", "n" >> ],
         [ name |-> << "B", "a", "g", "h" >> ], [ name |-> << " " >> ] >> }

EditCall ==
    \E original \in EditOriginals, edited \in EditEdited,
       known_pois \in EditKnown, user_edit_message \in EditMessages :
        /\ EIdle
        /\ ed_args' = << original, edited, known_pois, user_edit_message >>
        /\ ed_result' = evaluate_edit_correctness(original, edited, known_pois,
                                                  user_edit_message)
        /\ UNCHANGED << bvars, tvars, fvars, gvars, pvars, ovars, cvars >>

InitEdit == BInit /\ TIdle /\ FIdle /\ EIdle /\ GIdle /\ PIdle /\ OIdle /\ CIdle

SpecEdit == InitEdit /\ [][EditCall]_vars

\* the ordered, case-folded names of the activities of a day
RECURSIVE FoldedNames(_)
FoldedNames(acts) ==
    IF acts = << >> THEN << >>
    ELSE LET poi == Head(acts).poi
             name == IF "name" \in DOMAIN poi THEN Strip(poi.name) ELSE << >>
         IN  (IF name = << >> THEN << >> ELSE << Lower(name) >>)
                \o FoldedNames(Tail(acts))

\* the days outside S that exist in both itineraries and whose names differ
ChangedOutside(original, edited, S) ==
    { n \in 1..Min(Len(original), Len(edited)) :
        n \notin S /\ FoldedNames(original[n].activities) # FoldedNames(edited[n].activities) }

UnintendedIssueDays(report) ==
    { report.issues[k].day :
        k \in { j \in 1..Len(report.issues) :
                  report.issues[j].kind = "Unintended change elsewhere" } }

OnlyUnintendedIssues(report) ==
    \A k \in 1..Len(report.issues) :
        report.issues[k].kind = "Unintended change elsewhere"

\* C7: when the message names a non-empty set S of days, an unintended-change
\* issue is reported exactly for the days outside S that exist in both
\* itineraries and whose ordered case-folded names differ; when no such day
\* exists and no other issue applies, passed is True
C7_UnintendedChange ==
    (ed_args # NoCall /\ _intended_days_from_message(ed_args[4]) # NoDays) =>
        LET S == _intended_days_from_message(ed_args[4])
            changed == ChangedOutside(ed_args[1], ed_args[2], S)
        IN  /\ S # {}
            /\ UnintendedIssueDays(ed_result) = changed
            /\ (changed = {} /\ OnlyUnintendedIssues(ed_result)) => ed_result.passed

\* C7 witness: "Add Monsoon to day 2" with day 1 rewritten in another case and
\* day 2 changed passes; the same request with day 1 reordered is reported
C7_Witness ==
    /\ ed_args # NoCall
    /\ ed_args[1] = << DayA, DayB >>
    /\ ed_args[4] = << "A", "d", "d", " ", "M", "o", "n", "s", "o", "o", "n", " ", "t", "o", " ", "d", "a", "y", " ", "2" >>
    /\ _intended_days_from_message(ed_args[4]) = {2}
    /\ ed_args[2] = << EditDayOf(<< E_lake, E_palace >>), DayB >>
    /\ UnintendedIssueDays(ed_result) = {1}
    /\ ~ed_result.passed

\* C7 second witness: the same request; day 1 differs from the original only
\* in the case of a name, and nothing is reported
C7_WitnessPassed ==
    /\ ed_args # NoCall
    /\ ed_args[1] = << DayA, DayB >>
    /\ ed_args[3] = << >>
    /\ ed_args[4] = << "A", "d", "d", " ", "M", "o", "n", "s", "o", "o", "n", " ", "t", "o", " ", "d", "a", "y", " ", "2" >>
    /\ ed_args[2] = << EditDayOf(<< E_palaceLc, E_lake >>), DayB >>
    /\ ed_result.passed

\* a 12-hour time as the claims read it: an hour from 1 to 12, minutes from
\* 00 to 59 or none, then AM or PM; u is the stripped upper-case text and n
\* the number of digits of the hour
TwelveHourTail(u, p) ==
    p + BlanksAt(u, p) + 1 = Len(u) /\ (WordAt(u, p + BlanksAt(u, p), S_AM)
                                         \/ WordAt(u, p + BlanksAt(u, p), S_PM))

HasMinutes(u, n) == n + 1 <= Len(u) /\ u[n + 1] = ":" /\ DigitsAt(u, n + 2) = 2

TwelveHourAt(u, n) ==
    /\ n \in 1..2
    /\ DigitsValue(SubSeq(u, 1, n)) \in 1..12
    /\ IF HasMinutes(u, n)
       THEN DigitsValue(SubSeq(u, n + 2, n + 3)) <= 59 /\ TwelveHourTail(u, n + 4)
       ELSE TwelveHourTail(u, n + 1)

IsTwelveHour(time_str) == TwelveHourAt(Upper(Strip(time_str)), DigitsAt(Upper(Strip(time_str)), 1))

\* the minutes since midnight of a valid 12-hour time: 12 AM is 0:00 and
\* 12 PM is 12:00
TwelveHourMinutesAt(u, n) ==
    ((DigitsValue(SubSeq(u, 1, n)) % 12) + (IF Contains(u, S_PM) THEN 12 ELSE 0)) * 60
        + (IF HasMinutes(u, n) THEN DigitsValue(SubSeq(u, n + 2, n + 3)) ELSE 0)

TwelveHourMinutes(time_str) ==
    TwelveHourMinutesAt(Upper(Strip(time_str)), DigitsAt(Upper(Strip(time_str)), 1))

\* C16: the time parser of the validators maps every valid 12-hour time,
\* with or without minutes, to its minutes since midnight ('12 AM' to 0,
\* '12 PM' to 720), and evaluate_feasibility flags 'Could not parse time'
\* only for a time that is not empty and not a valid 12-hour time; a valid
\* midnight time is not flagged
C16_TwelveHourTimes ==
    fe_args # NoCall =>
        \A k \in 1..Len(fe_args[1]) : \A j \in 1..Len(fe_args[1][k].activities) :
            /\ IsTwelveHour(fe_args[1][k].activities[j].time)
                  => _parse_time(fe_args[1][k].activities[j].time)
                         = TwelveHourMinutes(fe_args[1][k].activities[j].time)
            /\ HasActIssue(fe_result, "Could not parse time", k, j)
                  => /\ fe_args[1][k].activities[j].time # << >>
                     /\ ~IsTwelveHour(fe_args[1][k].activities[j].time)

\* what holds of the code: a valid 12-hour time that has its minutes and is
\* not in the hour after midnight is read as the claim says and not flagged
C16_WithMinutes ==
    fe_args # NoCall =>
        \A k \in 1..Len(fe_args[1]) : \A j \in 1..Len(fe_args[1][k].activities) :
            (/\ IsTwelveHour(fe_args[1][k].activities[j].time)
             /\ Contains(fe_args[1][k].activities[j].time, << ":" >>)
             /\ TwelveHourMinutes(fe_args[1][k].activities[j].time) # 0)
                => /\ _parse_time(fe_args[1][k].activities[j].time)
                         = TwelveHourMinutes(fe_args[1][k].activities[j].time)
                   /\ ~HasActIssue(fe_result, "Could not parse time", k, j)

\* the original days outside S that the edited itinerary no longer has
MissingOutside(original, edited, S) ==
    { n \in 1..Len(original) : n \notin S /\ n > Len(edited) }

\* C17: when the request names a non-empty day set S and the report says
\* passed, every original day outside S still exists in the edited
\* itinerary with the same ordered case-folded names; an unmentioned day
\* that the shorter edited itinerary has lost is reported
C17_UnmentionedDaysKept ==
    (/\ ed_args # NoCall
     /\ _intended_days_from_message(ed_args[4]) # NoDays
     /\ ed_result.passed)
        => /\ MissingOutside(ed_args[1], ed_args[2],
                             _intended_days_from_message(ed_args[4])) = {}
           /\ ChangedOutside(ed_args[1], ed_args[2],
                             _intended_days_from_message(ed_args[4])) = {}

\* what holds of the code: a passed report leaves no unmentioned day that
\* exists in both itineraries with other names
C17_CommonDaysKept ==
    (/\ ed_args # NoCall
     /\ _intended_days_from_message(ed_args[4]) # NoDays
     /\ ed_result.passed)
        => ChangedOutside(ed_args[1], ed_args[2],
                          _intended_days_from_message(ed_args[4])) = {}

----------------------------------------------------------------------------
(* evaluate_edit_correctness: an edited value of any type *)

\* a Python value with its type
PyNone == [ type |-> "NoneType" ]

PyInt(n) == [ type |-> "int", value |-> n ]

PyDict(dict) == [ type |-> "dict", value |-> dict ]

PyStr(s) == [ type |-> "str", value |-> s ]

PyList(l) == [ type |-> "list", value |-> l ]

\* the types len() accepts; for the others it raises TypeError
SizedTypes == { "list", "dict", "str" }

\* what a call leaves when an exception leaves it
Raises(exception) == [ raises |-> exception ]

\* line 85
NotAListReport ==
    [ passed |-> FALSE, score |-> 0,
      issues |-> << [ kind |-> "Edited itinerary is not a list" ] >> ]

\* lines 79-88 before the checks of a list: len(edited) of line 81 comes
\* before the isinstance test of line 84
evaluate_edit_correctness_of(original, edited, known_pois, user_edit_message) ==
    IF edited.type \notin SizedTypes THEN Raises("TypeError")
    ELSE IF edited.type # "list" THEN NotAListReport
    ELSE evaluate_edit_correctness(original, edited.value, known_pois,
                                   user_edit_message)

\* the edited values of the calls: None, numbers, dicts, strings and lists
EditValues ==
    << PyNone, PyInt(0), PyInt(3),
       PyDict(<< >>), PyDict([ days |-> 1 ]),
       PyStr(<< >>), PyStr(<< "D", "a", "y", " ", "1" >>),
       PyList(<< >>), PyList(<< DayA, DayB >>) >>

EditAnyCall ==
    \E original \in EditOriginals, k \in 1..Len(EditValues),
       known_pois \in EditKnown, user_edit_message \in EditMessages :
        /\ EIdle
        /\ ed_args' = << original, EditValues[k], known_pois, user_edit_message >>
        /\ ed_result' = evaluate_edit_correctness_of(original, EditValues[k], known_pois,
                                                     user_edit_message)
        /\ UNCHANGED << bvars, tvars, fvars, gvars, pvars, ovars, cvars >>

InitEditAny == BInit /\ TIdle /\ FIdle /\ EIdle /\ GIdle /\ PIdle /\ OIdle /\ CIdle

SpecEditAny == InitEditAny /\ [][EditAnyCall]_vars

\* C11: for every edited value that is not a list the call returns
\* passed = False, score = 0.0 and the single issue 'not a list'; it does
\* not raise
C11_NotAList ==
    (ed_args # NoCall /\ ed_args[2].type # "list") => ed_result = NotAListReport

\* what holds of the code: the report is returned for the values that have
\* a length (dict, str), and a TypeError leaves the call for the others
C11_SizedNotAList ==
    (ed_args # NoCall /\ ed_args[2].type # "list") =>
        IF ed_args[2].type \in SizedTypes THEN ed_result = NotAListReport
        ELSE ed_result = Raises("TypeError")

----------------------------------------------------------------------------
(* grounding_eval.py *)

\* \w of the regular expressions
IsWordChar(c) == IsUpper(c) \/ IsLower(c) \/ IsDigit(c) \/ c = "_"

\* \b between positions i - 1 and i of s
BoundaryAt(s, i) ==
    LET before == i > 1 /\ i - 1 <= Len(s) /\ IsWordChar(s[i - 1])
        after == i >= 1 /\ i <= Len(s) /\ IsWordChar(s[i])
    IN  before # after

\* the number of lower-case letters of s from position i on ([a-z]*)
RECURSIVE LowersAt(_, _)
LowersAt(s, i) == IF i <= Len(s) /\ IsLower(s[i]) THEN 1 + LowersAt(s, i + 1) ELSE 0

\* the length of [A-Z][a-z]+ at position i, 0 when it does not match
CapWordAt(s, i) ==
    IF i <= Len(s) /\ IsUpper(s[i]) /\ LowersAt(s, i + 1) > 0
    THEN 1 + LowersAt(s, i + 1) ELSE 0

\* the ends of the words of the longest chain (?:\s+[A-Z][a-z]+)* that
\* follows a word ending before position i
RECURSIVE ChainEnds(_, _)
ChainEnds(s, i) ==
    LET b == BlanksAt(s, i)
        w == CapWordAt(s, i + b)
    IN  IF b > 0 /\ w > 0 THEN << i + b + w >> \o ChainEnds(s, i + b + w) ELSE << >>

\* the last of the chain ends that lies at a \b, 0 when there is none
LastBoundary(s, ends) ==
    IF \A k \in 1..Len(ends) : ~BoundaryAt(s, ends[k]) THEN 0
    ELSE ends[CHOOSE k \in 1..Len(ends) :
                  /\ BoundaryAt(s, ends[k])
                  /\ \A j \in (k + 1)..Len(ends) : ~BoundaryAt(s, ends[j])]

\* the end (exclusive) of the match of [A-Z][a-z]+(?:\s+[A-Z][a-z]+)+\b at i,
\* 0 when there is none: the longest chain whose last word ends at a \b
CapPhraseEnd(s, i) ==
    IF BoundaryAt(s, i) /\ CapWordAt(s, i) > 0
    THEN LastBoundary(s, ChainEnds(s, i + CapWordAt(s, i))) ELSE 0

MinOf(set) == CHOOSE j \in set : \A k \in set : j <= k

\* re.findall(r'\b([A-Z][a-z]+(?:\s+[A-Z][a-z]+)+)\b', text), from i on;
\* starts holds the positions from i on where the expression matches
RECURSIVE CapitalizedFrom(_, _)
RECURSIVE CapitalizedNext(_, _)
CapitalizedNext(s, starts) ==
    IF starts = {} THEN {}
    ELSE { SubSeq(s, MinOf(starts), CapPhraseEnd(s, MinOf(starts)) - 1) }
            \cup CapitalizedFrom(s, CapPhraseEnd(s, MinOf(starts)))

CapitalizedFrom(s, i) ==
    CapitalizedNext(s, { j \in i..Len(s) : CapPhraseEnd(s, j) > 0 })

\* the position of the first '"' of s at or after i, 0 when there is none
QuoteFrom(s, i) ==
    LET quotes == { j \in i..Len(s) : s[j] = "\"" }
    IN  IF quotes = {} THEN 0 ELSE CHOOSE j \in quotes : \A k \in quotes : j <= k

\* re.findall(r'"([^"]+)"', text), from i on
RECURSIVE QuotedFrom(_, _)
QuotedFrom(s, i) ==
    LET open == QuoteFrom(s, i)
        close == IF open = 0 THEN 0 ELSE QuoteFrom(s, open + 1)
    IN  IF open = 0 \/ close = 0 THEN {}
        ELSE IF close = open + 1 THEN QuotedFrom(s, open + 1)
        ELSE { SubSeq(s, open + 1, close - 1) } \cup QuotedFrom(s, close + 1)

\* lines 22-31
known_patterns ==
    { << "C", "i", "t", "y", " ", "P", "a", "l", "a", "c", "e" >>,
      << "L", "a", "k", "e", " ", "P", "i", "c", "h", "o", "l", "a" >>,
      << "J", "a", "g", "d", "i", "s", "h", " ", "T", "e", "m", "p", "l", "e" >>,
      << "S", "a", "h", "e", "l", "i", "y", "o", "n", " ", "k", "i", " ", "B", "a", "r", "i" >>,
      << "F", "a", "t", "e", "h", " ", "S", "a", "g", "a", "r" >>,
      << "M", "o", "n", "s", "o", "o", "n", " ", "P", "a", "l", "a", "c", "e" >>,
      << "A", "h", "a", "r", " ", "M", "u", "s", "e", "u", "m" >>,
      << "B", "h", "a", "r", "a", "t", "i", "y", "a", " ", "L", "o", "k", " ", "K", "a", "l", "a" >> }

\* lines 15-38.  list(set(...)) keeps each extracted string once, in an order
\* the program does not fix; the result is kept as the set of the raw strings,
\* and the list the code returns holds Strip(name) for each of them
ExtractedRaw(text) ==
    LET all_names == QuotedFrom(text, 1) \cup CapitalizedFrom(text, 1)
                        \cup { pt \in known_patterns : Contains(Lower(text), Lower(pt)) }
    IN  { name \in all_names : Len(Strip(name)) > 2 }

\* one of [\-_.,;:'()] (the alphabet has no ; and no ')
IsPunct(c) == c \in { "-", "_", ".", ",", ":", "(", ")" }

\* re.sub(r"\s+", " ", s) after every punctuation mark became a blank
RECURSIVE CollapseBlanks(_)
CollapseBlanks(s) ==
    IF s = << >> THEN << >>
    ELSE IF IsSpace(Head(s)) /\ Len(s) > 1 /\ IsSpace(s[2]) THEN CollapseBlanks(Tail(s))
    ELSE << IF IsSpace(Head(s)) THEN " " ELSE Head(s) >> \o CollapseBlanks(Tail(s))

\* lines 41-48
_normalize_poi_name(name) ==
    IF name = << >> THEN << >>
    ELSE LET s1 == Strip(Lower(name))
             s2 == [i \in 1..Len(s1) |-> IF IsPunct(s1[i]) THEN " " ELSE s1[i]]
         IN  Strip(CollapseBlanks(s2))

\* lines 105-115
known_udaipur_names ==
    { << "s", "a", "j", "j", "a", "n", "g", "a", "r", "h", " ", "p", "a", "l", "a", "c", "e" >>,
      << "s", "a", "j", "j", "a", "n", "g", "a", "r", "h" >>,
      << "m", "o", "n", "s", "o", "o", "n", " ", "p", "a", "l", "a", "c", "e" >>,
      << "g", "h", "a", "n", "t", "a", " ", "g", "h", "a", "r" >>,
      << "c", "l", "o", "c", "k", " ", "t", "o", "w", "e", "r" >>,
      << "d", "h", "a", "r", "o", "h", "a", "r", " ", "s", "c", "h", "o", "o", "l" >>,
      << "d", "h", "a", "r", "o", "h", "a", "r", " ", "m", "u", "s", "e", "u", "m" >>,
      << "d", "h", "a", "r", "o", "h", "a", "r" >>,
      << "s", "a", "h", "e", "l", "i", "y", "o", "n", " ", "k", "i", " ", "b", "a", "r", "i" >>,
      << "s", "a", "h", "e", "l", "i", "o", "n", " ", "k", "i", " ", "b", "a", "r", "i" >>,
      << "b", "a", "g", "o", "r", "e", " ", "k", "i", " ", "h", "a", "v", "e", "l", "i" >>,
      << "b", "a", "g", "o", "r", "e", " ", "k", "i", " ", "h", "a", "v", "e", "l", "i", " ", "m", "u", "s", "e", "u", "m" >>,
      << "j", "a", "g", "d", "i", "s", "h", " ", "t", "e", "m", "p", "l", "e" >>,
      << "j", "a", "g", " ", "m", "a", "n", "d", "i", "r" >>,
      << "b", "h", "a", "r", "a", "t", "i", "y", "a", " ", "l", "o", "k", " ", "k", "a", "l", "a" >>,
      << "b", "h", "a", "r", "a", "t", "i", "y", "a", " ", "l", "o", "k", " ", "k", "a", "l", "a", " ", "m", "u", "s", "e", "u", "m" >>,
      << "l", "o", "k", " ", "k", "a", "l", "a", " ", "m", "u", "s", "e", "u", "m" >>,
      << "c", "r", "y", "s", "t", "a", "l", " ", "g", "a", "l", "l", "e", "r", "y" >>,
      << "f", "a", "t", "e", "h", " ", "p", "r", "a", "k", "a", "s", "h", " ", "p", "a", "l", "a", "c", "e" >>,
      << "v", "i", "n", "t", "a", "g", "e", " ", "c", "a", "r" >>,
      << "c", "l", "a", "s", "s", "i", "c", " ", "c", "a", "r" >>,
      << "v", "i", "n", "t", "a", "g", "e", " ", "a", "n", "d", " ", "c", "l", "a", "s", "s", "i", "c", " ", "c", "a", "r" >> }

\* words[:2] joined by a blank
FirstTwoWords(name) ==
    LET words == Split(Lower(name))
    IN  IF Len(words) >= 2 THEN { words[1] \o << " " >> \o words[2] } ELSE {}

\* lines 116-126; known_pois is the list after lines 100-102 (the list of the
\* caller, or the one of the POI repository when the caller gave None)
known_poi_names(known_pois) ==
    LET names == { Strip(Get(known_pois[k], "name", << >>)) : k \in 1..Len(known_pois) }
        from_pois == UNION { { Lower(n), _normalize_poi_name(n) } \cup FirstTwoWords(n) :
                             n \in names \ { << >> } }
        before == known_udaipur_names \cup from_pois
    IN  before \cup { _normalize_poi_name(n) : n \in before }

\* lines 129-147 without the one entry that holds letters outside the
\* alphabet ("local caf.."): a text over the alphabet never contains it, and
\* every part of it that such a text can be is a part of "local cafe" as well
blocklist ==
    { << "d", "a", "l", " ", "b", "a", "t", "i", " ", "c", "h", "u", "r", "m", "a" >>,
      << "d", "a", "l", " ", "b", "a", "a", "t", "i", " ", "c", "h", "u", "r", "m", "a" >>,
      << "d", "a", "l", " ", "b", "a", "t", "i" >>,
      << "b", "a", "a", "t", "i", " ", "c", "h", "u", "r", "m", "a" >>,
      << "l", "a", "a", "l", " ", "m", "a", "a", "n", "s" >>,
      << "l", "a", "a", "l", " ", "m", "a", "a", "s" >>,
      << "l", "a", "l", " ", "m", "a", "a", "n", "s" >>,
      << "l", "o", "r", "d", " ", "v", "i", "s", "h", "n", "u" >>,
      << "l", "o", "r", "d", " ", "s", "h", "i", "v", "a" >>,
      << "l", "o", "r", "d", " ", "k", "r", "i", "s", "h", "n", "a" >>,
      << "l", "o", "r", "d", " ", "b", "r", "a", "h", "m", "a" >>,
      << "r", "a", "j", "a", "s", "t", "h", "a", "n", "i", " ", "c", "u", "i", "s", "i", "n", "e" >>,
      << "t", "r", "a", "d", "i", "t", "i", "o", "n", "a", "l", " ", "c", "u", "i", "s", "i", "n", "e" >>,
      << "s", "t", "r", "e", "e", "t", " ", "f", "o", "o", "d" >>,
      << "b", "o", "a", "t", " ", "r", "i", "d", "e" >>,
      << "s", "c", "e", "n", "i", "c", " ", "v", "i", "e", "w", "s" >>,
      << "m", "o", "r", "n", "i", "n", "g", " ", "l", "i", "g", "h", "t" >>,
      << "e", "v", "e", "n", "i", "n", "g", " ", "l", "i", "g", "h", "t" >>,
      << "l", "a", "t", "e", " ", "m", "o", "r", "n", "i", "n", "g" >>,
      << "e", "a", "r", "l", "y", " ", "m", "o", "r", "n", "i", "n", "g" >>,
      << "e", "a", "r", "l", "y", " ", "a", "f", "t", "e", "r", "n", "o", "o", "n" >>,
      << "l", "a", "t", "e", " ", "a", "f", "t", "e", "r", "n", "o", "o", "n" >>,
      << "e", "a", "r", "l", "y", " ", "e", "v", "e", "n", "i", "n", "g" >>,
      << "l", "a", "t", "e", " ", "e", "v", "e", "n", "i", "n", "g" >>,
      << "l", "u", "n", "c", "h", " ", "b", "r", "e", "a", "k" >>,
      << "m", "o", "r", "n", "i", "n", "g", " ", "b", "r", "e", "a", "k" >>,
      << "c", "i", "t", "y", " ", "o", "f", " ", "l", "a", "k", "e", "s" >>,
      << "c", "i", "t", "y", " ", "o", "f", " ", "l", "a", "k", "e", "s", " ", "u", "d", "a", "i", "p", "u", "r" >>,
      << "m", "e", "w", "a", "r", " ", "k", "i", "n", "g", "d", "o", "m" >>,
      << "m", "e", "w", "a", "r" >>,
      << "l", "o", "c", "a", "l", " ", "r", "e", "s", "t", "a", "u", "r", "a", "n", "t" >>,
      << "l", "o", "c", "a", "l", " ", "e", "a", "t", "e", "r", "y" >>,
      << "l", "o", "c", "a", "l", " ", "c", "a", "f", "e" >>,
      << "l", "o", "c", "a", "l", " ", "s", "h", "o", "p" >>,
      << "l", "o", "c", "a", "l", " ", "m", "a", "r", "k", "e", "t" >>,
      << "m", "a", "i", "n", " ", "m", "a", "r", "k", "e", "t" >>,
      << "o", "l", "d", " ", "c", "i", "t", "y" >>,
      << "o", "l", "d", " ", "c", "i", "t", "y", " ", "m", "a", "r", "k", "e", "t" >>,
      << "h", "i", "s", "t", "o", "r", "i", "c", " ", "p", "a", "l", "a", "c", "e" >>,
      << "f", "a", "m", "o", "u", "s", " ", "t", "e", "m", "p", "l", "e" >>,
      << "l", "a", "k", "e", " ", "v", "i", "e", "w" >>,
      << "r", "o", "o", "f", " ", "t", "o", "p" >>,
      << "r", "o", "o", "f", "t", "o", "p" >>,
      << "t", "r", "a", "d", "i", "t", "i", "o", "n", "a", "l", " ", "m", "a", "r", "k", "e", "t" >>,
      << "s", "c", "e", "n", "i", "c", " ", "v", "i", "e", "w" >>,
      << "p", "a", "l", "a", "c", "e", " ", "c", "o", "m", "p", "l", "e", "x" >>,
      << "t", "e", "m", "p", "l", "e", " ", "c", "o", "m", "p", "l", "e", "x" >>,
      << "m", "u", "s", "e", "u", "m", " ", "c", "o", "m", "p", "l", "e", "x" >>,
      << "g", "a", "r", "d", "e", "n", " ", "c", "o", "m", "p", "l", "e", "x" >>,
      << "h", "i", "s", "t", "o", "r", "i", "c", " ", "s", "i", "t", "e" >>,
      << "c", "u", "l", "t", "u", "r", "a", "l", " ", "c", "e", "n", "t", "e", "r" >>,
      << "c", "u", "l", "t", "u", "r", "a", "l", " ", "c", "e", "n", "t", "r", "e" >>,
      << "r", "o", "y", "a", "l", " ", "f", "a", "m", "i", "l", "y" >>,
      << "v", "i", "n", "t", "a", "g", "e", " ", "c", "a", "r" >>,
      << "c", "l", "a", "s", "s", "i", "c", " ", "c", "a", "r" >>,
      << "v", "i", "n", "t", "a", "g", "e", " ", "a", "n", "d", " ", "c", "l", "a", "s", "s", "i", "c" >>,
      << "h", "i", "s", "t", "o", "r", "i", "c", " ", "p", "a", "l", "a", "c", "e", " ", "c", "o", "m", "p", "l", "e", "x" >>,
      << "f", "a", "m", "o", "u", "s", " ", "t", "e", "m", "p", "l", "e", " ", "c", "o", "m", "p", "l", "e", "x" >>,
      << "l", "a", "k", "e", " ", "v", "i", "e", "w", " ", "r", "e", "s", "t", "a", "u", "r", "a", "n", "t" >>,
      << "m", "e", "w", "a", "r", " ", "f", "e", "s", "t", "i", "v", "a", "l" >>,
      << "s", "h", "i", "l", "p", "g", "r", "a", "m", " ", "f", "a", "i", "r" >>,
      << "c", "u", "l", "t", "u", "r", "a", "l", " ", "f", "e", "s", "t", "i", "v", "a", "l" >>,
      << "t", "r", "a", "d", "i", "t", "i", "o", "n", "a", "l", " ", "c", "r", "a", "f", "t" >>,
      << "b", "u", "d", "g", "e", "t", " ", "b", "r", "e", "a", "k", "d", "o", "w", "n" >>,
      << "e", "n", "t", "r", "y", " ", "f", "e", "e", "s" >>,
      << "w", "o", "r", "l", "d", " ", "h", "e", "r", "i", "t", "a", "g", "e", " ", "s", "i", "t", "e" >>,
      << "u", "n", "e", "s", "c", "o", " ", "w", "o", "r", "l", "d", " ", "h", "e", "r", "i", "t", "a", "g", "e", " ", "s", "i", "t", "e" >> }

\* lines 149-156
_is_blocklisted(name) ==
    LET lower == Strip(Lower(name))
    IN  \E bl \in blocklist : Contains(lower, bl) \/ Contains(bl, lower)

\* lines 168-177
Found(poi_name, known) ==
    LET lower == Lower(poi_name)
        norm == _normalize_poi_name(poi_name)
    IN  \E known_name \in known :
            \/ Contains(known_name, lower) \/ Contains(lower, known_name)
            \/ norm # << >> /\ (Contains(known_name, norm) \/ Contains(norm, known_name))

\* line 178: names of at most 3 characters are never reported
MinUnverifiedLen == 3

\* lines 162-179, for one entry of mentioned_pois
IsUnverified(poi_name, known) ==
    /\ poi_name # << >>
    /\ ~_is_blocklisted(poi_name)
    /\ ~Found(poi_name, known)
    /\ Len(poi_name) > MinUnverifiedLen

\* as ReportUnverified, but one unverified name suffices
ReportUnverified_One(n) == n >= 1

\* line 182
ReportUnverified(n) == n >= 2

\* the number of word characters of s from position i on (\w*)
RECURSIVE WordCharsAt(_, _)
WordCharsAt(s, i) ==
    IF i <= Len(s) /\ IsWordChar(s[i]) THEN 1 + WordCharsAt(s, i + 1) ELSE 0

\* set(re.findall(r"\b\w{4,}\b", s)): the maximal runs of 4 word characters
\* or more
LongWords(s) ==
    { SubSeq(s, i, i + WordCharsAt(s, i) - 1) :
        i \in { j \in 1..Len(s) : BoundaryAt(s, j) /\ WordCharsAt(s, j) >= 4 } }

IsTerminator(c) == c \in { ".", "!", "?" }

\* re.split(r'[.!?]+', text)
RECURSIVE SplitSentences(_)
SplitSentences(s) ==
    IF \A i \in 1..Len(s) : ~IsTerminator(s[i]) THEN << s >>
    ELSE LET first == CHOOSE i \in 1..Len(s) :
                          IsTerminator(s[i]) /\ \A j \in 1..(i - 1) : ~IsTerminator(s[j])
             next == CHOOSE i \in (first + 1)..(Len(s) + 1) :
                         /\ i = Len(s) + 1 \/ ~IsTerminator(s[i])
                         /\ \A j \in (first + 1)..(i - 1) : IsTerminator(s[j])
         IN  << SubSeq(s, 1, first - 1) >> \o SplitSentences(SubSeq(s, next, Len(s)))

\* lines 56-65, matched without regard to case
HasClaimIndicator(sentence) ==
    LET low == Lower(sentence)
    IN  \E ind \in { << "i", "s", " ", "a" >>, << "i", "s", " ", "a", "n" >>, << "i", "s", " ", "t", "h", "e" >>, << "w", "a", "s", " ", "a" >>, << "w", "a", "s", " ", "a", "n" >>, << "w", "a", "s", " ", "t", "h", "e" >>,
                     << "h", "a", "s", " ", "a" >>, << "h", "a", "s", " ", "a", "n" >>, << "h", "a", "s", " ", "t", "h", "e" >>, << "l", "o", "c", "a", "t", "e", "d", " ", "a", "t" >>, << "l", "o", "c", "a", "t", "e", "d", " ", "i", "n" >>,
                     << "k", "n", "o", "w", "n", " ", "f", "o", "r" >>, << "k", "n", "o", "w", "n", " ", "a", "s" >>, << "f", "a", "m", "o", "u", "s", " ", "f", "o", "r" >>, << "f", "a", "m", "o", "u", "s", " ", "a", "s" >>,
                     << "b", "u", "i", "l", "t", " ", "i", "n" >>, << "b", "u", "i", "l", "t", " ", "b", "y" >>, << "e", "s", "t", "a", "b", "l", "i", "s", "h", "e", "d" >> } :
            Contains(low, ind)

\* lines 51-70
RECURSIVE ClaimsOf(_)
ClaimsOf(sentences) ==
    IF sentences = << >> THEN << >>
    ELSE LET sentence == Strip(Head(sentences))
         IN  (IF Len(sentence) > 20 /\ HasClaimIndicator(sentence)
              THEN << sentence >> ELSE << >>) \o ClaimsOf(Tail(sentences))

_extract_claims(text) == ClaimsOf(SplitSentences(text))

\* lines 197-207
IsUngrounded(claim, kb_words) ==
    LET claim_words == LongWords(Lower(claim))
        overlap == claim_words \cap kb_words
    IN  /\ Cardinality(claim_words) >= 4
        /\ ~(10 * Cardinality(overlap) >= Cardinality(claim_words)
               \/ Cardinality(overlap) >= 2)

\* lines 214-231: the covered and the distinct normalised source names
SourceCoverage(sources, mentioned_pois) ==
    LET source_names == { Strip(sources[k].name) :
                            k \in { j \in 1..Len(sources) :
                                      Get(sources[j], "name", << >>) # << >> } }
        source_norm == { _normalize_poi_name(n) : n \in source_names \ { << >> } }
        mentioned_norm == { _normalize_poi_name(n) : n \in mentioned_pois \ { << >> } }
        covered == { sn \in source_norm \ { << >> } :
                       \E mn \in mentioned_norm : Contains(mn, sn) \/ Contains(sn, mn) }
    IN  [ covered |-> Cardinality(covered), total |-> Cardinality(source_norm) ]

\* lines 234-239, in hundredths
GroundingScore(n) == IF n = 0 THEN 100 ELSE Max(0, 100 - 20 * n)

\* lines 182-183, 210-211, 214-231: the issues, in the order they are added
GroundingIssues(unverified, ungrounded, sources, coverage) ==
    (IF ReportUnverified(Cardinality(unverified))
     THEN << [ kind |-> "Unverified POI names", names |-> unverified ] >>
     ELSE << >>)
    \o (IF ungrounded >= 4
        THEN << [ kind |-> "Potentially ungrounded claims", found |-> ungrounded ] >>
        ELSE << >>)
    \o (IF sources # << >> /\ coverage.total > 0
           /\ 2 * coverage.covered < coverage.total
        THEN << [ kind |-> "Response only mentions", covered |-> coverage.covered,
                  total |-> coverage.total ] >>
        ELSE << >>)

\* lines 233-251
GroundingReport(issues, mentioned, unverified, claims_checked, ungrounded) ==
    [ passed |-> issues = << >>,
      score |-> GroundingScore(Len(issues)),
      issues |-> issues,
      details |-> [ mentioned_pois |-> mentioned,
                    unverified_pois |-> unverified,
                    claims_checked |-> claims_checked,
                    ungrounded_claims |-> ungrounded ] ]

GroundingCounted(sources, raw, unverified, claims, ungrounded) ==
    GroundingReport(
        GroundingIssues(unverified, ungrounded, sources,
                        SourceCoverage(sources, { Strip(name) : name \in raw })),
        Cardinality(raw), Cardinality(unverified), Len(claims), ungrounded)

\* lines 158-207: raw are the extracted names, known the known names, claims
\* the claims and kb_words the words of the corpus
GroundingFindings(sources, raw, known, claims, kb_words) ==
    GroundingCounted(
        sources, raw,
        { name \in raw : IsUnverified(Strip(name), known) },
        claims,
        Cardinality({ k \in 1..Min(10, Len(claims)) : IsUngrounded(claims[k], kb_words) }))

\* lines 73-251.  kb_text is what UdaipurKnowledgeBase.get_context returns for
\* the three sections, joined as in lines 187-189
evaluate_grounding(response, sources, known_pois, kb_text) ==
    IF Strip(response) = << >>
    THEN [ passed |-> TRUE, score |-> 100, issues |-> << >>,
           details |-> [ reason |-> "Empty response" ] ]
    ELSE GroundingFindings(sources, ExtractedRaw(response),
                           known_poi_names(known_pois), _extract_claims(response),
                           LongWords(Lower(kb_text)))

----------------------------------------------------------------------------
(* evaluate_grounding: calls *)

MaxFragments == 2

\* the response of tests/test_evaluations.py: two made-up names and a known one
G_madeup == << "V", "i", "s", "i", "t", " ", "t", "h", "e", " ", "M", "a", "d", "e", " ", "U", "p", " ", "P", "a", "l", "a", "c", "e", ",", " ", "F", "a", "k", "e", " ", "G", "a", "r", "d", "e", "n", ",", " ", "a", "n", "d", " ", "C", "i", "t", "y", " ", "P", "a", "l", "a", "c", "e", ".", " " >>

\* one made-up name, once as a phrase and once in quotes
G_one == << "S", "t", "a", "y", " ", "a", "t", " ", "\"", "B", "l", "u", "e", " ", "H", "e", "r", "o", "n", " ", "I", "n", "n", "\"", " ", "n", "e", "a", "r", " ", "L", "a", "k", "e", " ", "P", "i", "c", "h", "o", "l", "a", "!", " " >>

\* a dish, a short name and a known name spelled with a hyphen
G_blocked == << "T", "r", "y", " ", "D", "a", "l", " ", "B", "a", "t", "i", " ", "C", "h", "u", "r", "m", "a", " ", "a", "t", " ", "\"", "Z", "o", "o", "\"", " ", "o", "r", " ", "\"", "J", "a", "g", "-", "M", "a", "n", "d", "i", "r", "\"", "?", " " >>

\* a quoted name with a blank at its end, next to the same phrase
G_twice == << "S", "e", "e", " ", "\"", "F", "a", "k", "e", " ", "G", "a", "r", "d", "e", "n", " ", "\"", " ", "n", "o", "w", " " >>

\* two claims about things the corpus does not know
G_claims == << "T", "h", "e", " ", "t", "o", "w", "e", "r", " ", "i", "s", " ", "a", " ", "t", "a", "l", "l", " ", "s", "t", "o", "n", "e", " ", "r", "e", "l", "i", "c", " ", "o", "v", "e", "r", " ", "t", "h", "e", "r", "e", ".", " ", "E", "v", "e", "r", "y", " ", "g", "a", "t", "e", " ", "w", "a", "s", " ", "t", "h", "e", " ", "m", "a", "i", "n", " ", "t", "r", "a", "d", "e", " ", "r", "o", "u", "t", "e", " ", "o", "n", "c", "e", ".", " " >>

\* one claim that the corpus covers
G_grounded == << "U", "d", "a", "i", "p", "u", "r", " ", "i", "s", " ", "k", "n", "o", "w", "n", " ", "f", "o", "r", " ", "l", "a", "k", "e", "s", " ", "a", "n", "d", " ", "p", "a", "l", "a", "c", "e", "s", " ", "a", "r", "o", "u", "n", "d", ".", " " >>

GroundingFragments == { G_madeup, G_one, G_blocked, G_twice, G_claims, G_grounded }

RECURSIVE Concat(_)
Concat(parts) == IF parts = << >> THEN << >> ELSE Head(parts) \o Concat(Tail(parts))

\* what may follow the first fragment of a response
GroundingTails == { G_claims, G_one }

\* a blank response, or a fragment followed by fewer than MaxFragments others
GroundingResponses ==
    { << " ", " " >> }
        \cup { head \o Concat(parts) :
                 head \in GroundingFragments,
                 parts \in UNION { [1..n -> GroundingTails] : n \in 0..(MaxFragments - 1) } }

P_city == [ name |-> << "C", "i", "t", "y", " ", "P", "a", "l", "a", "c", "e" >> ]

P_heron == [ name |-> << "B", "l", "u", "e", "-", "H", "e", "r", "o", "n", " ", "I", "n", "n", " ", "U", "d", "a", "i", "p", "u", "r" >> ]

P_lake == [ name |-> << " ", "L", "a", "k", "e", " ", "P", "i", "c", "h", "o", "l", "a", " " >> ]

\* (sources, known_pois, kb_text); the text of the corpus is blank when there
\* is no knowledge file
GroundingParams ==
    { << << >>, << P_city >>, << " ", " ", " " >> >>,
      << << >>, << >>, << " ", " ", " " >> >>,
      << << >>, << P_city, P_heron, [ name |-> << >> ] >>, << "U", "d", "a", "i", "p", "u", "r", " ", "l", "a", "k", "e", "s", " ", "p", "a", "l", "a", "c", "e", "s", " ", "a", "n", "d", " ", "g", "a", "r", "d", "e", "n", "s", " " >> >>,
      << << P_city, P_lake >>, << P_city >>, << "U", "d", "a", "i", "p", "u", "r", " ", "l", "a", "k", "e", "s", " ", "p", "a", "l", "a", "c", "e", "s", " ", "a", "n", "d", " ", "g", "a", "r", "d", "e", "n", "s", " " >> >>,
      << << P_heron, P_lake, [ name |-> << >> ] >>, << P_city, [ name |-> << "-" >> ] >>, << " ", " ", " " >> >>,
      << << P_lake >>, << P_lake >>, << " ", " ", " " >> >> }

GroundingCall ==
    \E response \in GroundingResponses, prm \in GroundingParams :
        /\ GIdle
        /\ gr_args' = << response, prm[1], prm[2], prm[3] >>
        /\ gr_result' = evaluate_grounding(response, prm[1], prm[2], prm[3])
        /\ UNCHANGED << bvars, tvars, fvars, evars, pvars, ovars, cvars >>

InitGrounding == BInit /\ TIdle /\ FIdle /\ EIdle /\ GIdle /\ PIdle /\ OIdle /\ CIdle

SpecGrounding == InitGrounding /\ [][GroundingCall]_vars

\* a candidate matches a known name: one is a part of the other, as written
\* in lower case or normalised
MatchesKnown(name, known) ==
    \E k \in known :
        \/ Contains(k, Lower(name)) \/ Contains(Lower(name), k)
        \/ /\ _normalize_poi_name(name) # << >>
           /\ \/ Contains(k, _normalize_poi_name(name))
              \/ Contains(_normalize_poi_name(name), k)

Blocklisted(name) ==
    \E bl \in blocklist :
        Contains(Strip(Lower(name)), bl) \/ Contains(bl, Strip(Lower(name)))

\* the extracted candidates of the call that are unverified
UnverifiedCandidates ==
    { c \in ExtractedRaw(gr_args[1]) :
        /\ Len(Strip(c)) > 3
        /\ ~Blocklisted(Strip(c))
        /\ ~MatchesKnown(Strip(c), known_poi_names(gr_args[3])) }

GroundingIssue(kind) ==
    \E k \in 1..Len(gr_result.issues) : gr_result.issues[k].kind = kind

GroundingCalled == gr_args # NoCall /\ Strip(gr_args[1]) # << >>

C8_WitnessTolerated ==
    /\ GroundingCalled
    /\ gr_args[1] = G_one
    /\ gr_args[3] = << P_lake >>
    /\ UnverifiedCandidates = { << "B", "l", "u", "e", " ", "H", "e", "r", "o", "n", " ", "I", "n", "n" >> }
    /\ gr_result.passed
    /\ gr_result.score = 100

----------------------------------------------------------------------------
(* ui/itinerary_display.py *)

\* the number of characters of s from position i on that lie in cs
CharsAt(s, i, cs) ==
    IF \A j \in i..Len(s) : s[j] \in cs THEN Max(0, Len(s) - i + 1)
    ELSE MinOf({ j \in i..Len(s) : s[j] \notin cs }) - i

\* [\d:]
TimeChars == DOMAIN DigitValue \cup { ":" }

\* every character but the newline
LineChars == { Alphabet[i] : i \in 1..Len(Alphabet) } \ { "\n" }

\* (?:AM|PM|am|pm)? under IGNORECASE at position i of the lower-cased ls:
\* the length of what it takes
AmPmAt(ls, i) == IF WordAt(ls, i, << "a", "m" >>) \/ WordAt(ls, i, << "p", "m" >>) THEN 2 ELSE 0

\* s from position i to its end
From(s, i) == SubSeq(s, i, Len(s))

\* line 112, (?:For\s+)? at i: the position after it
AfterFor(ls, i) ==
    IF WordAt(ls, i, << "f", "o", "r" >>) /\ BlanksAt(ls, i + 3) > 0
    THEN i + 3 + BlanksAt(ls, i + 3) ELSE i

\* line 112, (?:#{1,3}\s*)? at i: the position after it (a fourth # is left
\* standing, where "Day" then fails)
AfterHashes(ls, i) ==
    IF CharsAt(ls, i, { "#" }) \in 1..3
    THEN i + CharsAt(ls, i, { "#" }) + BlanksAt(ls, i + CharsAt(ls, i, { "#" }))
    ELSE i

\* line 112, (?:\*{1,2}\s*)? at i: the position after it
AfterStars(ls, i) ==
    IF CharsAt(ls, i, { "*" }) \in 1..2
    THEN i + CharsAt(ls, i, { "*" }) + BlanksAt(ls, i + CharsAt(ls, i, { "*" }))
    ELSE i

\* line 112, Day\s+(\d+) at k: the position of the digits, 0 without a match
DayWordAt(ls, k) ==
    IF /\ WordAt(ls, k, S_day)
       /\ BlanksAt(ls, k + 3) > 0
       /\ DigitsAt(ls, k + 3 + BlanksAt(ls, k + 3)) > 0
    THEN k + 3 + BlanksAt(ls, k + 3) ELSE 0

\* line 112, the position of the digits of the marker whose first sign stands
\* at j, 0 without a match
MarkerDigits(ls, j) == DayWordAt(ls, AfterStars(ls, AfterHashes(ls, AfterFor(ls, j))))

\* line 112, \s*[:\s,\r\n] at p, of which w signs are blank: the position
\* after it, 0 without a match
MarkerLast(s, p, w) ==
    IF p + w <= Len(s) /\ s[p + w] \in { ":", "," } THEN p + w + 1
    ELSE IF w > 0 THEN p + w
    ELSE 0

MarkerEnd(s, p) == MarkerLast(s, p, BlanksAt(s, p))

\* line 112, (?:\s*\*{1,2})?\s*[:\s,\r\n] at p with the stars, if any, at q
MarkerCloseAt(s, p, q) ==
    IF CharsAt(s, q, { "*" }) \in 1..2 /\ MarkerEnd(s, q + CharsAt(s, q, { "*" })) > 0
    THEN MarkerEnd(s, q + CharsAt(s, q, { "*" }))
    ELSE MarkerEnd(s, p)

MarkerClose(s, p) == MarkerCloseAt(s, p, p + BlanksAt(s, p))

\* the position after the marker whose digits stand at dp
MarkerEndFrom(s, dp) == IF dp = 0 THEN 0 ELSE MarkerClose(s, dp + DigitsAt(s, dp))

\* line 112: day_pattern matches with its first character at i (the start of
\* the text or a newline); the position after the match, 0 without one
MarkerMatch(s, ls, i) == MarkerEndFrom(s, MarkerDigits(ls, i + BlanksAt(s, i)))

\* int(m.group(1)) of the marker matched at i
MarkerNumberAt(s, dp) == DigitsValue(SubSeq(s, dp, dp + DigitsAt(s, dp) - 1))

MarkerNumber(s, ls, i) == MarkerNumberAt(s, MarkerDigits(ls, i + BlanksAt(s, i)))

\* the positions from pos on where day_pattern matches: ^ is the start of
\* the text only, [\r\n]+ needs a newline
MarkerStarts(s, ls, pos) ==
    { i \in pos..Len(s) : (i = 1 \/ s[i] = "\n") /\ MarkerMatch(s, ls, i) > 0 }

\* day_pattern.search(text, pos): the start of the leftmost match, 0 for None
SearchFrom(starts) == IF starts = {} THEN 0 ELSE MinOf(starts)

SearchMarker(s, ls, pos) == SearchFrom(MarkerStarts(s, ls, pos))

\* str.splitlines()
RECURSIVE SplitLines(_)
SplitLines(s) ==
    IF s = << >> THEN << >>
    ELSE << SubSeq(s, 1, CharsAt(s, 1, LineChars)) >>
             \o SplitLines(From(s, CharsAt(s, 1, LineChars) + 2))

\* line 132: re.sub(r"^[\s\-*..]\s*", "", line); the two bullet signs of the
\* class lie outside the alphabet
DropBullet(line) ==
    IF line # << >> /\ line[1] \in { "\n", " ", "-", "*" }
    THEN From(line, 2 + BlanksAt(line, 2)) ELSE line

\* line 133: re.sub(r"^\d+[.)]\s*", "", cleaned), n the digits at the start
DropNumberAt(s, n) ==
    IF n > 0 /\ n + 1 <= Len(s) /\ s[n + 1] \in { ".", ")" }
    THEN From(s, n + 2 + BlanksAt(s, n + 2)) ELSE s

DropNumber(s) == DropNumberAt(s, DigitsAt(s, 1))

\* lines 135-136: the position after I\s+suggest or I\s+recommend, 0
\* without a match
SuggestWord(ls, k) ==
    IF WordAt(ls, k, << "s", "u", "g", "g", "e", "s", "t" >>) THEN k + 7
    ELSE IF WordAt(ls, k, << "r", "e", "c", "o", "m", "m", "e", "n", "d" >>) THEN k + 9
    ELSE 0

SuggestEnd(ls) ==
    IF ls # << >> /\ ls[1] = "i" /\ BlanksAt(ls, 2) > 0
    THEN SuggestWord(ls, 2 + BlanksAt(ls, 2)) ELSE 0

\* lines 135-140: \s*:\s* at e, taken away with what stands before it; c is
\* the position of the colon
DropSuggestAt(s, e, c) ==
    IF e > 0 /\ c <= Len(s) /\ s[c] = ":"
    THEN From(s, c + 1 + BlanksAt(s, c + 1)) ELSE s

DropSuggestFrom(s, e) == DropSuggestAt(s, e, e + BlanksAt(s, e))

DropSuggest(s) == DropSuggestFrom(s, SuggestEnd(Lower(s)))

\* lines 132-140
CleanLine(line) == Strip(DropSuggest(DropNumber(DropBullet(line))))

\* line 59-60
BudgetPrefixes ==
    { << "b", "u", "d", "g", "e", "t" >>, << "t", "o", "t", "a", "l", ":" >>, << "a", "c", "c", "o", "m", "m", "o", "d", "a", "t", "i", "o", "n" >>, << "f", "o", "o", "d", " ", "a", "n", "d", " ", "d", "r", "i", "n", "k" >>, << "t", "r", "a", "n", "s", "p", "o", "r", "t", "a", "t", "i", "o", "n" >>,
      << "e", "n", "t", "r", "y", " ", "f", "e", "e", "s" >>, << "m", "i", "s", "c", "e", "l", "l", "a", "n", "e", "o", "u", "s" >>, << "t", "o", "t", "a", "l", " " >>, << "t", "h", "i", "s", " ", "i", "t", "i", "n", "e", "r", "a", "r", "y" >>, << "e", "n", "j", "o", "y", " ", "y", "o", "u", "r" >> }

\* str.startswith(tuple)
StartsWithAny(s, words) == \E w \in words : WordAt(s, 1, w)

\* \d+\s*word at position j of s: the position after it, 0 without a match
AmountAt(s, j, word) ==
    IF /\ DigitsAt(s, j) > 0
       /\ WordAt(s, j + DigitsAt(s, j) + BlanksAt(s, j + DigitsAt(s, j)), word)
    THEN j + DigitsAt(s, j) + BlanksAt(s, j + DigitsAt(s, j)) + Len(word) ELSE 0

\* \s*$ at position e of s, 0 standing for no match before it
EndsAt(s, e) == e > 0 /\ e + BlanksAt(s, e) = Len(s) + 1

\* line 62
StartsWithAmount(lower) ==
    \/ AmountAt(lower, 1, << "i", "n", "r" >>) > 0
    \/ WordAt(lower, 1, << "t", "o", "t", "a", "l", ":" >>) /\ DigitsAt(lower, 7 + BlanksAt(lower, 7)) > 0

\* line 64
NightsOrUpgrade(lower) ==
    \/ \E i \in 1..Len(lower) : lower[i] = "(" /\ AmountAt(lower, i + 1, << "n", "i", "g", "h", "t" >>) > 0
    \/ Contains(lower, << "u", "p", "g", "r", "a", "d", "e", " ", "t", "o" >>) /\ Contains(lower, << "i", "n", "r" >>)

\* line 67
EndsWithFee(lower) ==
    \E i \in 1..Len(lower) :
        /\ lower[i] = ":"
        /\ \/ EndsAt(lower, AmountAt(lower, i + 1 + BlanksAt(lower, i + 1), << "i", "n", "r" >>))
           \/ /\ WordAt(lower, i + 1 + BlanksAt(lower, i + 1), << "f", "r", "e", "e" >>)
              /\ EndsAt(lower, i + 5 + BlanksAt(lower, i + 1))

\* lines 56-69 on the lower-cased and stripped line
IsBudgetLower(lower) ==
    \/ Len(lower) < 4
    \/ StartsWithAny(lower, BudgetPrefixes)
    \/ StartsWithAmount(lower)
    \/ NightsOrUpgrade(lower)
    \/ EndsWithFee(lower)

_is_budget_or_summary_line(cleaned) == IsBudgetLower(Strip(Lower(cleaned)))

\* the character c stands in s at position i
CharAt(s, i, c) == i >= 1 /\ i <= Len(s) /\ s[i] = c

DigitAt(s, i) == i >= 1 /\ i <= Len(s) /\ IsDigit(s[i])

\* \d{1,2}:\d{2} at position i: the length of the match, 0 without one
ClockAt(s, i) ==
    IF /\ DigitAt(s, i) /\ DigitAt(s, i + 1) /\ CharAt(s, i + 2, ":")
       /\ DigitAt(s, i + 3) /\ DigitAt(s, i + 4) THEN 5
    ELSE IF /\ DigitAt(s, i) /\ CharAt(s, i + 1, ":")
            /\ DigitAt(s, i + 2) /\ DigitAt(s, i + 3) THEN 4
    ELSE 0

\* \s*(?:AM|PM|am|pm)? at p: the position after it
SkipAmPm(ls, p) == p + BlanksAt(ls, p) + AmPmAt(ls, p + BlanksAt(ls, p))

\* \s*[..\-] at p: the position of the dash, 0 without a match (the other
\* dash of the class lies outside the alphabet)
DashAfter(ls, p) == IF CharAt(ls, p + BlanksAt(ls, p), "-") THEN p + BlanksAt(ls, p) ELSE 0

\* line 145, the lookahead \d{1,2}:\d{2}\s*(?:AM|PM|am|pm)?\s*[..\-] at i
SlotAt(ls, i) ==
    ClockAt(ls, i) > 0 /\ DashAfter(ls, SkipAmPm(ls, i + ClockAt(ls, i))) > 0

\* line 145: the first positions of the runs of blanks at which
\* time_slot_start matches
SlotBreaks(ls) ==
    { a \in 2..Len(ls) :
        IsSpace(ls[a]) /\ ~IsSpace(ls[a - 1]) /\ SlotAt(ls, a + BlanksAt(ls, a)) }

\* line 148: time_slot_start.split(cleaned), the segments from position i on
RECURSIVE SegmentsFrom(_, _, _)
SegmentsFrom(s, breaks, i) ==
    IF \A a \in breaks : a < i THEN << From(s, i) >>
    ELSE << SubSeq(s, i, MinOf({ a \in breaks : a >= i }) - 1) >>
           \o SegmentsFrom(s, breaks,
                  MinOf({ a \in breaks : a >= i })
                      + BlanksAt(s, MinOf({ a \in breaks : a >= i })))

Segments(cleaned) == SegmentsFrom(cleaned, SlotBreaks(Lower(cleaned)), 1)

\* [\d:]+\s*(?:AM|PM|am|pm)?\s*[..\-] at the start of the segment: the
\* position of the dash, 0 without a match
TimeDash(ls) ==
    IF CharsAt(ls, 1, TimeChars) > 0
    THEN DashAfter(ls, SkipAmPm(ls, 1 + CharsAt(ls, 1, TimeChars))) ELSE 0

\* [\d:]+\s*(?:AM|PM|am|pm)?\s*: with the token at t, of n signs: the colons
\* the expression can end with, none of them after position last.  The
\* token taken whole, the colon follows AM/PM and blanks; given back in
\* part, the colon is one of its own
TokenColons(ls, t, n, last) ==
    { c \in (t + 1)..last :
        \/ c < t + n /\ ls[c] = ":"
        \/ c = SkipAmPm(ls, t + n) + BlanksAt(ls, SkipAmPm(ls, t + n)) /\ CharAt(ls, c, ":") }

MaxOf(set) == CHOOSE j \in set : \A k \in set : j >= k

\* the colon the greedy expression ends with, 0 without a match
TokenColon(ls, t, n, last) ==
    IF n = 0 \/ TokenColons(ls, t, n, last) = {} THEN 0
    ELSE MaxOf(TokenColons(ls, t, n, last))

\* line 155, time_range_desc with the dash at dash: the position of the
\* colon before the description, 0 without a match; (.+) needs a sign
RangeColonAt(ls, t) == TokenColon(ls, t, CharsAt(ls, t, TimeChars), Len(ls) - 1)

RangeColon(ls, dash) ==
    IF dash = 0 THEN 0 ELSE RangeColonAt(ls, dash + 1 + BlanksAt(ls, dash + 1))

\* line 167, single_time_desc after the hour of nd digits, e the position
\* after \d{1,2}(?::\d{2})?: the position of the colon, 0 without a match
SingleColonAt(ls, c) == IF CharAt(ls, c, ":") /\ c < Len(ls) THEN c ELSE 0

SingleColonFrom(ls, e) == SingleColonAt(ls, SkipAmPm(ls, e) + BlanksAt(ls, SkipAmPm(ls, e)))

\* line 167: with the minutes if that matches, without them otherwise
SingleColonOf(ls, nd) ==
    IF /\ CharAt(ls, nd + 1, ":") /\ DigitAt(ls, nd + 2) /\ DigitAt(ls, nd + 3)
       /\ SingleColonFrom(ls, nd + 4) > 0
    THEN SingleColonFrom(ls, nd + 4)
    ELSE SingleColonFrom(ls, nd + 1)

SingleColon(ls) ==
    IF DigitsAt(ls, 1) \in 1..2 THEN SingleColonOf(ls, DigitsAt(ls, 1)) ELSE 0

\* line 186, slot_place: the position of the dash, 0 without a match
SlotWordEnd(ls) ==
    IF WordAt(ls, 1, << "m", "o", "r", "n", "i", "n", "g" >>) THEN 8
    ELSE IF WordAt(ls, 1, << "a", "f", "t", "e", "r", "n", "o", "o", "n" >>) THEN 10
    ELSE IF WordAt(ls, 1, << "e", "v", "e", "n", "i", "n", "g" >>) THEN 8
    ELSE 0

SlotDash(ls) == IF SlotWordEnd(ls) = 0 THEN 0 ELSE DashAfter(ls, SlotWordEnd(ls))

\* lines 193-194: the position of the first "):", 0 when there is none
ParenColon(s) ==
    IF Contains(s, << ")", ":" >>)
    THEN MinOf({ i \in 1..Len(s) : WordAt(s, i, << ")", ":" >>) }) ELSE 0

\* str.lstrip(":")
LStripColons(s) == From(s, 1 + CharsAt(s, 1, { ":" }))

\* line 195
SlotPrefixes == { << "d", "a", "y", " " >>, << "m", "o", "r", "n", "i", "n", "g" >>, << "a", "f", "t", "e", "r", "n", "o", "o", "n" >>, << "e", "v", "e", "n", "i", "n", "g" >> }

\* line 196: the text re.search(r"(\d{1,2}:\d{2}\s*(?:AM|PM|am|pm)?)") finds,
\* stripped; "" when it finds none
ClockTextAt(s, ls, i) == Strip(SubSeq(s, i, SkipAmPm(ls, i + ClockAt(ls, i)) - 1))

ClockText(s, ls) ==
    IF \A i \in 1..Len(s) : ClockAt(ls, i) = 0 THEN << >>
    ELSE ClockTextAt(s, ls, MinOf({ i \in 1..Len(s) : ClockAt(ls, i) > 0 }))

\* [A-Za-z0-9\s\-'] (the alphabet has no ')
NameChars ==
    DOMAIN LowerOf \cup DOMAIN UpperOf \cup DOMAIN DigitValue \cup { "\n", " ", "-" }

\* \s+w\s+ at e: the position after it, 0 without a match
BlankWord(ls, e, w) ==
    IF /\ BlanksAt(ls, e) > 0
       /\ WordAt(ls, e + BlanksAt(ls, e), w)
       /\ BlanksAt(ls, e + BlanksAt(ls, e) + Len(w)) > 0
    THEN e + BlanksAt(ls, e) + Len(w) + BlanksAt(ls, e + BlanksAt(ls, e) + Len(w))
    ELSE 0

\* \s*[,.] or \s*$ at e
LookStop(ls, e) ==
    \/ e + BlanksAt(ls, e) = Len(ls) + 1
    \/ ls[e + BlanksAt(ls, e)] \in { ",", "." }

\* the lookahead after a place name at e: of lines 80 and 202 ("visit"), of
\* line 212 ("activity") and of line 96 ("ride")
Look(ls, e, kind) ==
    \/ LookStop(ls, e)
    \/ kind \in { "visit", "activity" } /\ DigitAt(ls, BlankWord(ls, e, << "a", "t" >>))
    \/ /\ kind = "visit"
       /\ \/ BlankWord(ls, e, << "o", "n", "e" >>) > 0 /\ WordAt(ls, BlankWord(ls, e, << "o", "n", "e" >>), << "o", "f" >>)
          \/ DigitAt(ls, BlankWord(ls, e, << "a" >>))
          \/ BlankWord(ls, e, << "a", "n", "d" >>) > 0

\* ([A-Za-z][A-Za-z0-9\s\-']+?) at n followed by the lookahead: the position
\* after the shortest name, 0 without a match
NameEnds(ls, n, kind) ==
    { e \in (n + 2)..(n + 1 + CharsAt(ls, n + 1, NameChars)) : Look(ls, e, kind) }

NameEnd(ls, n, kind) ==
    IF n >= 1 /\ n <= Len(ls) /\ IsLower(ls[n]) /\ NameEnds(ls, n, kind) # {}
    THEN MinOf(NameEnds(ls, n, kind)) ELSE 0

\* lines 80 and 202: the openings of a visit, in the order they are tried
VisitOpenings ==
    << [word |-> << "v", "i", "s", "i", "t", " ", "t", "o", " ", "t", "h", "e" >>, the |-> FALSE], [word |-> << "v", "i", "s", "i", "t", " ", "t", "h", "e" >>, the |-> FALSE],
       [word |-> << "h", "e", "a", "d", " ", "t", "o", " ", "t", "h", "e" >>, the |-> FALSE], [word |-> << "h", "e", "a", "d", " ", "t", "o" >>, the |-> FALSE],
       [word |-> << "v", "i", "s", "i", "t", " ", "t", "h", "e" >>, the |-> FALSE] >>

\* lines 96 and 212: stroll through(?:\s+the)? tries "the" first
ActivityOpenings ==
    << [word |-> << "b", "o", "a", "t", " ", "r", "i", "d", "e", " ", "o", "n" >>, the |-> FALSE], [word |-> << "r", "i", "d", "e", " ", "o", "n" >>, the |-> FALSE],
       [word |-> << "s", "t", "r", "o", "l", "l", " ", "t", "h", "r", "o", "u", "g", "h" >>, the |-> TRUE], [word |-> << "s", "t", "r", "o", "l", "l", " ", "t", "h", "r", "o", "u", "g", "h" >>, the |-> FALSE] >>

\* the opening o at a: the position after it, 0 without a match
OpeningEnd(ls, a, o) ==
    IF ~WordAt(ls, a, o.word) THEN 0
    ELSE IF ~o.the THEN a + Len(o.word)
    ELSE IF /\ BlanksAt(ls, a + Len(o.word)) > 0
            /\ WordAt(ls, a + Len(o.word) + BlanksAt(ls, a + Len(o.word)), << "t", "h", "e" >>)
         THEN a + Len(o.word) + BlanksAt(ls, a + Len(o.word)) + 3
    ELSE 0

\* the opening and \s+ at a: the position of the name, 0 without a match
NameStartAt(ls, e) == IF e > 0 /\ BlanksAt(ls, e) > 0 THEN e + BlanksAt(ls, e) ELSE 0

NameStart(ls, a, o) == NameStartAt(ls, OpeningEnd(ls, a, o))

\* the pairs << a, k >> of a position and an opening with which the whole
\* expression matches
ProseMatches(ls, openings, kind) ==
    { ak \in (1..Len(ls)) \X (1..Len(openings)) :
        NameEnd(ls, NameStart(ls, ak[1], openings[ak[2]]), kind) > 0 }

\* re.search takes the leftmost position and there the first opening
FirstMatch(ms) ==
    CHOOSE ak \in ms :
        \A bk \in ms : ak[1] < bk[1] \/ (ak[1] = bk[1] /\ ak[2] <= bk[2])

\* m.group(1).strip() of the match
ProseNameAt(s, ls, n, kind) == Strip(SubSeq(s, n, NameEnd(ls, n, kind) - 1))

ProseNameOf(s, ls, openings, kind, ak) ==
    ProseNameAt(s, ls, NameStart(ls, ak[1], openings[ak[2]]), kind)

ProseName(s, ls, openings, kind) ==
    ProseNameOf(s, ls, openings, kind, FirstMatch(ProseMatches(ls, openings, kind)))

\* [a-z\-]
LowerDash == DOMAIN UpperOf \cup { "-" }

IsLetterAt(s, i) == i >= 1 /\ i <= Len(s) /\ (IsUpper(s[i]) \/ IsLower(s[i]))

\* line 100, (?:\s+[A-Za-z][a-z\-]*)+ after a whole word that ends before p:
\* the positions the chain can end at, its last word given back in part
RECURSIVE PhraseEnds(_, _)
PhraseWord(s, q) ==
    IF IsLetterAt(s, q)
    THEN ((q + 1)..(q + 1 + CharsAt(s, q + 1, LowerDash)))
             \cup PhraseEnds(s, q + 1 + CharsAt(s, q + 1, LowerDash))
    ELSE {}

PhraseEnds(s, p) == IF BlanksAt(s, p) > 0 THEN PhraseWord(s, p + BlanksAt(s, p)) ELSE {}

\* line 100, \b([A-Z][a-z]+(?:\s+[A-Za-z][a-z\-]*)+)\b at a: the position
\* after the longest match, 0 without one
PhraseLast(ends) == IF ends = {} THEN 0 ELSE MaxOf(ends)

PhraseEnd(s, a) ==
    IF BoundaryAt(s, a) /\ IsUpper(s[a]) /\ LowersAt(s, a + 1) > 0
    THEN PhraseLast({ e \in PhraseEnds(s, a + 1 + LowersAt(s, a + 1)) : BoundaryAt(s, e) })
    ELSE 0

\* s[:n]
Prefix(s, n) == SubSeq(s, 1, Min(n, Len(s)))

\* line 55 and the like: the longest name shown
MaxNameLen == 55

\* lines 100-103 with the positions where the phrase matches
FirstPhraseAt(rest, a) == Prefix(Strip(SubSeq(rest, a, PhraseEnd(rest, a) - 1)), MaxNameLen)

FirstPhrase(rest, starts) ==
    IF starts = {} THEN Strip(Prefix(rest, MaxNameLen))
    ELSE FirstPhraseAt(rest, MinOf(starts))

\* lines 89-103
ShortByWord(rest, lrest) ==
    IF Contains(lrest, << "l", "u", "n", "c", "h" >>) THEN << "L", "u", "n", "c", "h" >>
    ELSE IF Contains(lrest, << "d", "i", "n", "n", "e", "r" >>) THEN << "D", "i", "n", "n", "e", "r" >>
    ELSE IF Contains(lrest, << "b", "r", "e", "a", "k", "f", "a", "s", "t" >>) THEN << "B", "r", "e", "a", "k", "f", "a", "s", "t" >>
    ELSE IF ProseMatches(lrest, ActivityOpenings, "ride") # {}
         THEN ProseName(rest, lrest, ActivityOpenings, "ride")
    ELSE FirstPhrase(rest, { a \in 1..Len(rest) : PhraseEnd(rest, a) > 0 })

\* lines 79-87
ShortByVisitName(rest, lrest, name) ==
    IF Len(name) > 2 /\ Len(name) <= MaxNameLen THEN name ELSE ShortByWord(rest, lrest)

ShortByVisit(rest, lrest) ==
    IF ProseMatches(lrest, VisitOpenings, "visit") # {}
    THEN ShortByVisitName(rest, lrest, ProseName(rest, lrest, VisitOpenings, "visit"))
    ELSE ShortByWord(rest, lrest)

ShortOfRest(rest) == ShortByVisit(rest, Lower(rest))

\* line 77: the leading time and its colon taken away (the second time of
\* the expression needs a dash outside the alphabet); c the colon
DropLeadingTimeAt(s, c) == IF c = 0 THEN s ELSE From(s, c + 1 + BlanksAt(s, c + 1))

DropLeadingTimeOf(s, ls) ==
    DropLeadingTimeAt(s, TokenColon(ls, 1, CharsAt(ls, 1, TimeChars), Len(ls)))

DropLeadingTime(s) == DropLeadingTimeOf(s, Lower(s))

\* lines 72-103
_short_place_from_description(desc) ==
    IF Len(desc) <= MaxNameLen THEN Strip(desc)
    ELSE ShortOfRest(Strip(DropLeadingTime(desc)))

\* an entry of lines 127: (time_str or "", place_name)
Entry(time_str, place_name) == << << time_str, place_name >> >>

\* lines 159-165
RangeEntry(start_time, short_name) ==
    IF Len(short_name) > 1 THEN Entry(start_time, short_name) ELSE << >>

RangeRule(seg, dash, colon) ==
    RangeEntry(Strip(SubSeq(seg, 1, dash - 1)),
               _short_place_from_description(Strip(From(seg, colon + 1))))

\* lines 168-175
SingleEntry(start_time, desc) ==
    IF Len(desc) <= 2 THEN << >>
    ELSE IF Len(desc) > MaxNameLen
         THEN RangeEntry(start_time, _short_place_from_description(desc))
    ELSE RangeEntry(start_time, Prefix(desc, MaxNameLen))

SingleRule(seg, colon) ==
    SingleEntry(Strip(SubSeq(seg, 1, colon - 1)), Strip(From(seg, colon + 1)))

\* line 180: the longest name after a time and a dash
MaxTimePlaceLen == 80

\* lines 178-184 and 187-191: the name after the dash, no longer than longest
DashEntry(time_str, name, longest) ==
    IF Len(name) > 2 /\ Len(name) <= longest THEN Entry(time_str, name) ELSE << >>

TimePlaceRule(seg, dash) ==
    DashEntry(Strip(SubSeq(seg, 1, dash - 1)), Strip(From(seg, dash + 1)), MaxTimePlaceLen)

SlotPlaceRule(seg, dash) == DashEntry(<< >>, Strip(From(seg, dash + 1)), MaxNameLen)

\* lines 193-199
ParenEntry(seg, ls, after_colon) ==
    IF /\ after_colon # << >>
       /\ Len(after_colon) <= MaxNameLen
       /\ ~StartsWithAny(Lower(after_colon), SlotPrefixes)
    THEN Entry(ClockText(seg, ls), after_colon) ELSE << >>

ParenRule(seg, ls, at) == ParenEntry(seg, ls, LStripColons(Strip(From(seg, at + 2))))

\* lines 206-210 and 216-220
ProseRule(seg, ls, openings, kind) ==
    DashEntry(<< >>, ProseName(seg, ls, openings, kind), MaxNameLen)

\* line 225
prose_words ==
    { << "i", "t", "i", "n", "e", "r", "a", "r", "y" >>, << "d", "e", "s", "i", "g", "n", "e", "d" >>, << "h", "e", "l", "p", " ", "y", "o", "u" >>, << "e", "x", "p", "l", "o", "r", "e" >>, << "e", "x", "p", "e", "r", "i", "e", "n", "c", "e" >>,
      << "c", "o", "m", "p", "r", "e", "h", "e", "n", "s", "i", "v", "e" >>, << "g", "i", "v", "i", "n", "g", " ", "y", "o", "u" >>, << "v", "i", "e", "w", " ", "o", "f" >>, << "c", "u", "l", "t", "u", "r", "e" >>, << "c", "r", "a", "f", "t", "s", "m", "a", "n", "s", "h", "i", "p" >>,
      << "h", "i", "s", "t", "o", "r", "y" >>, << "t", "r", "a", "d", "i", "t", "i", "o", "n", "a", "l" >> }

\* lines 222-228
NameRule(seg, ls) ==
    IF /\ IsUpper(seg[1])
       /\ Len(seg) > 4 /\ Len(seg) <= MaxNameLen
       /\ ~StartsWithAny(ls, SlotPrefixes \cup { << "s", "u", "m", "m", "a", "r", "y" >> })
       /\ \A w \in prose_words : ~Contains(ls, w)
    THEN Entry(<< >>, seg) ELSE << >>

\* lines 176-228: the rules after the two with a description
LaterRules(seg, ls, dash) ==
    IF dash > 0 /\ dash < Len(seg) THEN TimePlaceRule(seg, dash)
    ELSE IF SlotDash(ls) > 0 /\ SlotDash(ls) < Len(seg) THEN SlotPlaceRule(seg, SlotDash(ls))
    ELSE IF ParenColon(seg) > 0 THEN ParenRule(seg, ls, ParenColon(seg))
    ELSE IF ProseMatches(ls, VisitOpenings, "visit") # {}
         THEN ProseRule(seg, ls, VisitOpenings, "visit")
    ELSE IF ProseMatches(ls, ActivityOpenings, "activity") # {}
         THEN ProseRule(seg, ls, ActivityOpenings, "activity")
    ELSE NameRule(seg, ls)

\* lines 153-175: the first rule that matches decides
SegmentRules(seg, ls, dash) ==
    IF RangeColon(ls, dash) > 0 THEN RangeRule(seg, dash, RangeColon(ls, dash))
    ELSE IF SingleColon(ls) > 0 THEN SingleRule(seg, SingleColon(ls))
    ELSE LaterRules(seg, ls, dash)

\* lines 150-152
SegmentEntries(seg) ==
    IF Len(seg) < 5 THEN << >> ELSE SegmentRules(seg, Lower(seg), TimeDash(Lower(seg)))

\* lines 149-228 over the segments of a line
RECURSIVE SegmentsEntries(_)
SegmentsEntries(segments) ==
    IF segments = << >> THEN << >>
    ELSE SegmentEntries(Strip(Head(segments))) \o SegmentsEntries(Tail(segments))

\* lines 132-148
CleanedEntries(cleaned) ==
    IF _is_budget_or_summary_line(cleaned) THEN << >>
    ELSE SegmentsEntries(Segments(cleaned))

\* lines 129-131
LineEntries(line) == IF Len(line) < 3 THEN << >> ELSE CleanedEntries(CleanLine(line))

\* lines 128-228 over the lines of a block
RECURSIVE LinesEntries(_)
LinesEntries(lines) ==
    IF lines = << >> THEN << >>
    ELSE LineEntries(Strip(Head(lines))) \o LinesEntries(Tail(lines))

BlockEntries(block) == LinesEntries(SplitLines(block))

\* lines 268-277: None is << >>, the minutes m are << m >>
MinutesOfParts(s, parts) ==
    IF parts = << >> \/ ~IsIntLiteral(parts[1]) THEN << >>
    ELSE IF Len(parts) > 1 /\ ~IsIntLiteral(parts[2]) THEN << >>
    ELSE << HourMinute(s, IntValue(parts[1]),
                       IF Len(parts) > 1 THEN IntValue(parts[2]) ELSE 0) >>

MinutesOfUpper(s) == MinutesOfParts(s, Split(ColonsToSpaces(s)))

\* lines 262-277
_parse_time_to_minutes(time_str) ==
    IF Strip(time_str) = << >> THEN << >> ELSE MinutesOfUpper(Upper(Strip(time_str)))

\* line 233: duration_hours 1.5, in ticks
DefaultDuration == 450

\* line 250: duration_hours 0.25, in ticks
MinDuration == 75

\* line 238
TravelMinutes == 15

\* lines 246-250: the duration between the start cur and the next start nxt
CappedBy(max_duration_min) ==
    IF max_duration_min > 0
    THEN Max(MinDuration, Min(DefaultDuration, max_duration_min * TicksPerMinute))
    ELSE DefaultDuration

CappedBetween(cur, nxt, idx) ==
    IF cur # << >> /\ nxt # << >> /\ nxt[1] > cur[1]
    THEN CappedBy(nxt[1] - cur[1] - (IF idx > 1 THEN TravelMinutes ELSE 0))
    ELSE DefaultDuration

\* lines 240-250: the duration of the entry idx (counted from 1)
DurationOf(entries, idx) ==
    IF /\ entries[idx][1] # << >>
       /\ idx < Len(entries)
       /\ entries[idx + 1][1] # << >>
    THEN CappedBetween(_parse_time_to_minutes(entries[idx][1]),
                       _parse_time_to_minutes(entries[idx + 1][1]), idx)
    ELSE DefaultDuration

\* lines 232-238: the keys time and travel_time_from_previous are set only
\* for a time that is not "" and for an entry that is not the first
Activity(time_str, poi, idx) ==
    IF time_str # << >> /\ idx > 1
    THEN [poi |-> poi, time |-> time_str, travel_time_from_previous |-> TravelMinutes]
    ELSE IF time_str # << >> THEN [poi |-> poi, time |-> time_str]
    ELSE IF idx > 1 THEN [poi |-> poi, travel_time_from_previous |-> TravelMinutes]
    ELSE [poi |-> poi]

\* lines 230-251
ActivitiesOf(entries) ==
    [idx \in 1..Len(entries) |->
        Activity(entries[idx][1],
                 [name |-> entries[idx][2], duration_hours |-> DurationOf(entries, idx)],
                 idx)]

\* lines 229, 252-255
DayOf(day_num, entries) ==
    IF entries = << >> THEN << >>
    ELSE << [day_number |-> day_num, activities |-> ActivitiesOf(entries)] >>

\* lines 117-256: the days from position pos on (positions count from 1)
RECURSIVE DaysFrom(_, _, _)
\* lines 125-256, the block running up to block_end (exclusive)
DayBlock(text, ls, m, start, block_end) ==
    DayOf(MarkerNumber(text, ls, m), BlockEntries(SubSeq(text, start, block_end - 1)))
        \o DaysFrom(text, ls, block_end)

\* lines 123-124
DayUpTo(text, ls, m, start, next_m) ==
    DayBlock(text, ls, m, start, IF next_m = 0 THEN Len(text) + 1 ELSE next_m)

\* lines 121-123
DayAt(text, ls, m, start) == DayUpTo(text, ls, m, start, SearchMarker(text, ls, start))

\* lines 118-120
DayFound(text, ls, m) == IF m = 0 THEN << >> ELSE DayAt(text, ls, m, MarkerMatch(text, ls, m))

DaysFrom(text, ls, pos) == DayFound(text, ls, SearchMarker(text, ls, pos))

\* what parse_text_itinerary returns for None
NoItinerary == [none |-> TRUE]

\* lines 257-259
ItineraryOf(days) ==
    IF days = << >> THEN NoItinerary ELSE [days |-> days, metadata |-> << >>]

\* lines 106-259
parse_text_itinerary(text) ==
    IF Strip(text) = << >> THEN NoItinerary
    ELSE ItineraryOf(DaysFrom(text, Lower(text), 1))

----------------------------------------------------------------------------
(* parse_text_itinerary: the texts the model calls it with *)

\* a line of a text: what it says, the number of the day it opens (0 when it
\* opens none) and the places it names, as a reader takes them
TextLine(line, number, places) == [line |-> line, number |-> number, places |-> places]

L_day1 == TextLine(<< "D", "a", "y", " ", "1", ":" >>, 1, << >>)

L_day2 == TextLine(<< "*", "*", "D", "a", "y", " ", "2", "*", "*" >>, 2, << >>)

L_day3 == TextLine(<< "F", "o", "r", " ", "D", "a", "y", " ", "3", ",", " ", "I", " ", "s", "u", "g", "g", "e", "s", "t", ":" >>, 3, << >>)

L_day10 == TextLine(<< "#", "#", " ", "d", "a", "y", " ", "1", "0" >>, 10, << >>)

L_day4 == TextLine(<< "D", "a", "y", " ", "4", ":", " ", "A", "h", "a", "r", " ", "M", "u", "s", "e", "u", "m" >>, 4, << << "A", "h", "a", "r", " ", "M", "u", "s", "e", "u", "m" >> >>)

L_day5 == TextLine(<< "D", "a", "y", " ", "5" >>, 5, << >>)

L_day7 == TextLine(<< "D", "A", "Y", " ", "7", " ", ":" >>, 7, << >>)

L_palace == TextLine(<< "-", " ", "C", "i", "t", "y", " ", "P", "a", "l", "a", "c", "e" >>, 0, << << "C", "i", "t", "y", " ", "P", "a", "l", "a", "c", "e" >> >>)

L_lake == TextLine(<< "9", ":", "0", "0", " ", "A", "M", " ", "-", " ", "L", "a", "k", "e", " ", "P", "i", "c", "h", "o", "l", "a" >>, 0, << << "L", "a", "k", "e", " ", "P", "i", "c", "h", "o", "l", "a" >> >>)

L_temple ==
    TextLine(<< "M", "o", "r", "n", "i", "n", "g", " ", "(", "8", ":", "0", "0", " ", "A", "M", " ", "-", " ", "1", "0", ":", "0", "0", " ", "A", "M", ")", ":", " ", "J", "a", "g", "d", "i", "s", "h", " ", "T", "e", "m", "p", "l", "e" >>, 0, << << "J", "a", "g", "d", "i", "s", "h", " ", "T", "e", "m", "p", "l", "e" >> >>)

L_monsoon ==
    TextLine(<< "1", "0", ":", "3", "0", " ", "A", "M", " ", "-", " ", "1", "2", ":", "0", "0", " ", "P", "M", ":", " ", "S", "t", "a", "r", "t", " ", "t", "h", "e", " ", "d", "a", "y", " ", "w", "i", "t", "h", " ", "a", " ", "v", "i", "s", "i", "t", " ", "t", "o", " ", "t", "h", "e", " ", "M", "o", "n", "s", "o", "o", "n", " ", "P", "a", "l", "a", "c", "e", ",", " ", "o", "n", "e", " ", "o", "f", " ", "t", "h", "e", " ", "f", "i", "n", "e", "s", "t", " ", "s", "i", "g", "h", "t", "s" >>,
             0, << << "M", "o", "n", "s", "o", "o", "n", " ", "P", "a", "l", "a", "c", "e" >> >>)

L_haveli == TextLine(<< "2", ".", " ", "1", ":", "0", "0", " ", "P", "M", ":", " ", "B", "a", "g", "o", "r", "e", " ", "K", "i", " ", "H", "a", "v", "e", "l", "i" >>, 0, << << "B", "a", "g", "o", "r", "e", " ", "K", "i", " ", "H", "a", "v", "e", "l", "i" >> >>)

L_garden == TextLine(<< "A", "f", "t", "e", "r", "n", "o", "o", "n", " ", "-", " ", "S", "a", "h", "e", "l", "i", "y", "o", "n", "-", "k", "i", "-", "B", "a", "r", "i" >>, 0, << << "S", "a", "h", "e", "l", "i", "y", "o", "n", "-", "k", "i", "-", "B", "a", "r", "i" >> >>)

L_boat ==
    TextLine(<< "E", "n", "d", " ", "y", "o", "u", "r", " ", "d", "a", "y", " ", "w", "i", "t", "h", " ", "a", " ", "b", "o", "a", "t", " ", "r", "i", "d", "e", " ", "o", "n", " ", "F", "a", "t", "e", "h", " ", "S", "a", "g", "a", "r", "." >>, 0, << << "F", "a", "t", "e", "h", " ", "S", "a", "g", "a", "r" >> >>)

L_slots ==
    TextLine(<< "I", " ", "r", "e", "c", "o", "m", "m", "e", "n", "d", ":", " ", "9", ":", "3", "0", " ", "A", "M", " ", "-", " ", "Z", "o", "o", " ", "P", "a", "r", "k", " ", "1", "0", ":", "0", "0", " ", "A", "M", " ", "-", " ", "S", "a", "j", "j", "a", "n", "g", "a", "r", "h", " ", "F", "o", "r", "t" >>,
             0, << << "Z", "o", "o", " ", "P", "a", "r", "k" >>, << "S", "a", "j", "j", "a", "n", "g", "a", "r", "h", " ", "F", "o", "r", "t" >> >>)

L_budget == TextLine(<< "B", "u", "d", "g", "e", "t", ":", " ", "5", "0", "0", " ", "I", "N", "R" >>, 0, << >>)

L_fee == TextLine(<< "C", "i", "t", "y", " ", "P", "a", "l", "a", "c", "e", ":", " ", "3", "0", "0", " ", "I", "N", "R" >>, 0, << >>)

L_town == TextLine(<< "t", "h", "e", " ", "o", "l", "d", " ", "t", "o", "w", "n", " ", "i", "s", " ", "n", "e", "x", "t" >>, 0, << >>)

L_text == TextLine(<< "j", "u", "s", "t", " ", "s", "o", "m", "e", " ", "t", "e", "x", "t", " ", "w", "i", "t", "h", " ", "n", "o", " ", "D", "a", "y", " ", "1", "." >>, 0, << >>)

L_plan == TextLine(<< "h", "e", "r", "e", " ", "i", "s", " ", "t", "h", "e", " ", "p", "l", "a", "n", " ", "f", "o", "r", " ", "y", "o", "u", "r", " ", "t", "r", "i", "p" >>, 0, << >>)

L_blank == TextLine(<< " ", " " >>, 0, << >>)

\* a morning of timed stops: 8:00, 10:00, 10:10, 10:40 and 11:40
L_sagar == TextLine(<< "8", ":", "0", "0", " ", "A", "M", ":", " ", "F", "a", "t", "e", "h", " ", "S", "a", "g", "a", "r" >>, 0, << << "F", "a", "t", "e", "h", " ", "S", "a", "g", "a", "r" >> >>)

L_ghat == TextLine(<< "1", "0", ":", "0", "0", " ", "A", "M", ":", " ", "G", "a", "n", "g", "a", "u", "r", " ", "G", "h", "a", "t" >>, 0, << << "G", "a", "n", "g", "a", "u", "r", " ", "G", "h", "a", "t" >> >>)

L_tower == TextLine(<< "1", "0", ":", "1", "0", " ", "A", "M", ":", " ", "C", "l", "o", "c", "k", " ", "T", "o", "w", "e", "r" >>, 0, << << "C", "l", "o", "c", "k", " ", "T", "o", "w", "e", "r" >> >>)

L_pol == TextLine(<< "1", "0", ":", "4", "0", " ", "A", "M", ":", " ", "H", "a", "t", "h", "i", " ", "P", "o", "l" >>, 0, << << "H", "a", "t", "h", "i", " ", "P", "o", "l" >> >>)

L_cars == TextLine(<< "1", "1", ":", "4", "0", " ", "A", "M", ":", " ", "V", "i", "n", "t", "a", "g", "e", " ", "C", "a", "r", "s" >>, 0, << << "V", "i", "n", "t", "a", "g", "e", " ", "C", "a", "r", "s" >> >>)

TextLines ==
    { L_day1, L_day2, L_day3, L_day10, L_day4, L_day5, L_day7, L_palace, L_lake,
      L_temple, L_monsoon, L_haveli, L_garden, L_boat, L_slots, L_budget, L_fee,
      L_town, L_text, L_plan, L_blank, L_sagar, L_ghat, L_tower, L_pol, L_cars }

\* the pieces a text is put together from
TextPieces ==
    { << L_day1, L_palace, L_lake >>,
      << L_day2, L_temple, L_budget >>,
      << L_day3, L_monsoon, L_blank, L_haveli >>,
      << L_day10, L_garden, L_boat >>,
      << L_day2, L_town, L_fee >>,
      << L_text, L_plan >>,
      << L_day4 >>,
      << L_day7, L_slots, L_lake >>,
      << L_day5 >>,
      << L_blank >>,
      << L_day1, L_sagar, L_ghat, L_tower, L_pol, L_cars >> }

\* the most pieces of a text
MaxPieces == 2

\* the lines of a piece, each ended by a newline
RECURSIVE PieceText(_)
PieceText(piece) ==
    IF piece = << >> THEN << >>
    ELSE Head(piece).line \o << "\n" >> \o PieceText(Tail(piece))

\* the texts of n pieces
RECURSIVE TextsOf(_)
TextsOf(n) ==
    IF n = 0 THEN { << >> }
    ELSE { PieceText(p) \o t : p \in TextPieces, t \in TextsOf(n - 1) }

ParserTexts == UNION { TextsOf(n) : n \in 0..MaxPieces }

ParserCall ==
    \E text \in ParserTexts :
        /\ PIdle
        /\ pt_text' = << text >>
        /\ pt_result' = parse_text_itinerary(text)
        /\ UNCHANGED << bvars, tvars, fvars, evars, gvars, ovars, cvars >>

InitParser == BInit /\ TIdle /\ FIdle /\ EIdle /\ GIdle /\ PIdle /\ OIdle /\ CIdle

SpecParser == InitParser /\ [][ParserCall]_vars

ParserCalled == pt_text # NoCall

\* what a line of the text says, as a reader takes it
LineOf(line) == CHOOSE l \in TextLines : l.line = line

\* the lines of the text that open a day
RECURSIVE DayLines(_)
DayLines(lines) ==
    IF lines = << >> THEN << >>
    ELSE (IF LineOf(Head(lines)).number > 0 THEN << LineOf(Head(lines)).number >> ELSE << >>)
             \o DayLines(Tail(lines))

\* the places named from the first line on, up to the line that opens the
\* next day
RECURSIVE PlacesUntilDay(_, _)
PlacesUntilDay(lines, first) ==
    IF lines = << >> \/ (~first /\ LineOf(Head(lines)).number > 0) THEN << >>
    ELSE LineOf(Head(lines)).places \o PlacesUntilDay(Tail(lines), FALSE)

\* the places of every day of the text, in the order of the text
RECURSIVE DayPlaces(_)
DayPlaces(lines) ==
    IF lines = << >> THEN << >>
    ELSE (IF LineOf(Head(lines)).number > 0
          THEN << PlacesUntilDay(lines, TRUE) >> ELSE << >>)
             \o DayPlaces(Tail(lines))

\* the days returned are the days of the text: as many, in its order, with
\* the numbers of their markers, each place of a day among the names of its
\* activities as written
ReturnsDays(result, numbers, places) ==
    /\ result # NoItinerary
    /\ Len(result.days) = Len(numbers)
    /\ \A j \in 1..Len(numbers) :
        /\ result.days[j].day_number = numbers[j]
        /\ \A p \in 1..Len(places[j]) :
            \E k \in 1..Len(result.days[j].activities) :
                result.days[j].activities[k].poi.name = places[j][p]

\* C9: parse_text_itinerary returns None for an empty text and for a text
\* without a 'Day N' marker; for a text with k day markers, each followed by
\* at least one recognizable entry, it returns exactly k days, in the order
\* of the text, each with the number of its marker as day_number and with
\* the recognized place names, their case preserved
C9_ParsedDays ==
    ParserCalled =>
        LET numbers == DayLines(SplitLines(pt_text[1]))
            places == DayPlaces(SplitLines(pt_text[1]))
        IN  /\ numbers = << >> => pt_result = NoItinerary
            /\ (numbers # << >> /\ \A j \in 1..Len(places) : places[j] # << >>)
                   => ReturnsDays(pt_result, numbers, places)

\* the minutes of the time an activity carries, << >> without a time or with
\* one that cannot be parsed
CarriedMinutes(act) ==
    IF "time" \in DOMAIN act THEN _parse_time_to_minutes(act.time) ELSE << >>

\* the activity idx of the day and its successor both carry a parseable
\* time, and the successor starts later
SuccessorLater(acts, idx) ==
    /\ idx < Len(acts)
    /\ CarriedMinutes(acts[idx]) # << >>
    /\ CarriedMinutes(acts[idx + 1]) # << >>
    /\ CarriedMinutes(acts[idx + 1])[1] > CarriedMinutes(acts[idx])[1]

\* next_start - start - travel of the activity idx, in minutes
MinutesToNext(acts, idx) ==
    CarriedMinutes(acts[idx + 1])[1] - CarriedMinutes(acts[idx])[1]
        - (IF idx > 1 THEN 15 ELSE 0)

\* max(0.25 h, min(1.5 h, minutes)), in ticks
CapOf(minutes) == Max(75, Min(450, minutes * TicksPerMinute))

\* every activity after the first of its day has travel_time_from_previous
\* 15, and the duration of an activity is the capped one in the cases capped
\* names and 1.5 h in every other case
DurationsOf(acts, capped) ==
    \A idx \in 1..Len(acts) :
        /\ idx > 1 => /\ "travel_time_from_previous" \in DOMAIN acts[idx]
                      /\ acts[idx].travel_time_from_previous = 15
        /\ acts[idx].poi.duration_hours =
               IF idx \in capped THEN CapOf(MinutesToNext(acts, idx)) ELSE 450

\* C20: every parsed activity lasts 1.5 h by default and has 15 minutes of
\* travel when it is not the first of its day; whenever an activity and its
\* successor both carry parseable times, the successor later, the duration
\* is max(0.25 h, min(1.5 h, next_start - start - travel))
C20_CappedDurations ==
    (ParserCalled /\ pt_result # NoItinerary) =>
        \A k \in 1..Len(pt_result.days) :
            DurationsOf(pt_result.days[k].activities,
                        { idx \in 1..Len(pt_result.days[k].activities) :
                            SuccessorLater(pt_result.days[k].activities, idx) })

\* what holds of the code: the duration is capped when the successor starts
\* later by more than the travel time, and is 1.5 h in every other case
C20_CappedWhenRoomLeft ==
    (ParserCalled /\ pt_result # NoItinerary) =>
        \A k \in 1..Len(pt_result.days) :
            DurationsOf(pt_result.days[k].activities,
                        { idx \in 1..Len(pt_result.days[k].activities) :
                            /\ SuccessorLater(pt_result.days[k].activities, idx)
                            /\ MinutesToNext(pt_result.days[k].activities, idx) > 0 })

----------------------------------------------------------------------------
(* infrastructure/data/sources/overpass_client.py *)

S_Udaipur == << "U", "d", "a", "i", "p", "u", "r" >>

\* lines 31-32
_normalize_city(city) == IF Strip(city) = << >> THEN S_Udaipur ELSE Strip(city)

\* lines 84-87: the key is a digest of the normalized city, the type and
\* the radius; the model keeps the digested triple (two triples that differ
\* have different digests)
_cache_key(city, poi_type, radius_km) == << _normalize_city(city), poi_type, radius_km >>

\* lines 100-105: the first of the values that is set and not empty
FirstSet(tags, keys, default) ==
    IF \A k \in 1..Len(keys) : Get(tags, keys[k], "") = "" THEN default
    ELSE tags[keys[MinOf({ k \in 1..Len(keys) : Get(tags, keys[k], "") # "" })]]

\* lines 107-113 for an element at (lat, lon)
ElementAt(lat, lon, tags) ==
    [ name |-> FirstSet(tags, << "name", "name:en" >>, "Unnamed"),
      lat |-> lat, lon |-> lon,
      type |-> FirstSet(tags, << "amenity", "tourism", "historic" >>, "poi"),
      amenity |-> FirstSet(tags, << "amenity", "tourism", "historic" >>, "unknown") ]

\* lines 90-113: the parsed element in a list, the empty list for None
_parse_element(el) ==
    IF "lat" \in DOMAIN el /\ "lon" \in DOMAIN el
    THEN << ElementAt(el.lat, el.lon, Get(el, "tags", << >>)) >>
    ELSE IF /\ "center" \in DOMAIN el
            /\ "lat" \in DOMAIN el.center /\ "lon" \in DOMAIN el.center
         THEN << ElementAt(el.center.lat, el.center.lon, Get(el, "tags", << >>)) >>
    ELSE << >>

\* lines 116-122
RECURSIVE ParseElements(_)
ParseElements(elements) ==
    IF elements = << >> THEN << >>
    ELSE _parse_element(Head(elements)) \o ParseElements(Tail(elements))

_parse_overpass_response(data) == ParseElements(Get(data, "elements", << >>))

\* lines 142-152: the list stored under the key in a list, << >> for None
_read_cache(cache, key) == IF key \in DOMAIN cache THEN << cache[key] >> ELSE << >>

\* lines 154-161: a failed write is logged and leaves the directory as it was
_write_cache(cache, key, list, written) ==
    IF written THEN [ k \in DOMAIN cache \cup { key } |-> IF k = key THEN list ELSE cache[k] ]
    ELSE cache

\* what search_pois returns
ReturnedList(list) == [ returned |-> list ]

----------------------------------------------------------------------------
(* OverpassClient: the sessions of the model *)

MaxRequests == 2

MaxCalls == 4

OverpassCities == { S_Udaipur, << " ", "u", "d", "a", "i", "p", "u", "r", " " >>, << >> }

OverpassTypes == { << "r", "e", "s", "t", "a", "u", "r", "a", "n", "t" >>, << "m", "u", "s", "e", "u", "m" >> }

OverpassRadius == 5

El_node == [ lat |-> 2458, lon |-> 7371, tags |-> [ name |-> "Cafe Lake", amenity |-> "cafe" ] ]

El_way == [ center |-> [ lat |-> 2459, lon |-> 7369 ], tags |-> [ tourism |-> "museum" ] ]

El_relation == [ tags |-> [ name |-> "Old City" ] ]

\* the bodies the endpoint answers with
OverpassResponses ==
    { [ elements |-> << >> ],
      [ elements |-> << El_node >> ],
      [ elements |-> << El_relation, El_way >> ] }

\* the lists an earlier session left in the cache directory
OverpassCaches ==
    { << >> }
        \cup { [ k \in { _cache_key(S_Udaipur, t, OverpassRadius) } |-> << >> ] :
                 t \in OverpassTypes }

\* lines 133-140: the client after construction, the cache directory as
\* earlier sessions left it
OInit ==
    /\ oc_max_requests \in 0..MaxRequests
    /\ oc_request_count = 0
    /\ oc_cache \in OverpassCaches
    /\ oc_sent = 0 /\ oc_calls = 0 /\ oc_key = NoCall /\ oc_result = NoCall

\* the call of search_pois that is made: its key, and the calls counted
SearchCall(key) ==
    /\ oc_calls < MaxCalls
    /\ oc_calls' = oc_calls + 1
    /\ oc_key' = << key >>
    /\ UNCHANGED << oc_max_requests, bvars, tvars, fvars, evars, gvars, pvars, cvars >>

\* lines 198-204: the key is cached
SearchCached(key) ==
    /\ SearchCall(key)
    /\ _read_cache(oc_cache, key) # << >>
    /\ oc_result' = ReturnedList(_read_cache(oc_cache, key)[1])
    /\ UNCHANGED << oc_request_count, oc_cache, oc_sent >>

\* lines 206-210
SearchLimited(key) ==
    /\ SearchCall(key)
    /\ _read_cache(oc_cache, key) = << >>
    /\ oc_request_count >= oc_max_requests
    /\ oc_result' = Raises("RuntimeError")
    /\ UNCHANGED << oc_request_count, oc_cache, oc_sent >>

\* lines 212-227: the request is sent and fails (a RequestException of
\* requests.post or of raise_for_status, a body that is not JSON)
SearchFailed(key) ==
    /\ SearchCall(key)
    /\ _read_cache(oc_cache, key) = << >>
    /\ oc_request_count < oc_max_requests
    /\ oc_sent' = oc_sent + 1
    /\ oc_result' = ReturnedList(<< >>)
    /\ UNCHANGED << oc_request_count, oc_cache >>

\* lines 212-233: the request is sent and answered with data; the write of
\* the cache file succeeds or fails
SearchFetched(key, data, written) ==
    /\ SearchCall(key)
    /\ _read_cache(oc_cache, key) = << >>
    /\ oc_request_count < oc_max_requests
    /\ oc_sent' = oc_sent + 1
    /\ oc_request_count' = oc_request_count + 1
    /\ oc_cache' = _write_cache(oc_cache, key, _parse_overpass_response(data), written)
    /\ oc_result' = ReturnedList(_parse_overpass_response(data))

\* lines 178-233
search_pois(city, poi_type, radius_km) ==
    \/ SearchCached(_cache_key(city, poi_type, radius_km))
    \/ SearchLimited(_cache_key(city, poi_type, radius_km))
    \/ SearchFailed(_cache_key(city, poi_type, radius_km))
    \/ \E data \in OverpassResponses, written \in BOOLEAN :
          SearchFetched(_cache_key(city, poi_type, radius_km), data, written)

OverpassNext ==
    \E city \in OverpassCities, poi_type \in OverpassTypes :
        search_pois(city, poi_type, OverpassRadius)

InitOverpass == BInit /\ TIdle /\ FIdle /\ EIdle /\ GIdle /\ PIdle /\ OInit /\ CIdle

SpecOverpass == InitOverpass /\ [][OverpassNext]_vars

\* the key of the call a step makes was cached before the step
WasCached == oc_key'[1] \in DOMAIN oc_cache

\* C12: over any sequence of search_pois calls on one client at most
\* max_requests HTTP requests are sent; once that many have been sent, a call
\* whose key is not cached raises RuntimeError, and a call whose key is
\* cached returns the cached list, sends no request and consumes nothing of
\* the limit
C12_RateLimit ==
    [][ /\ oc_sent' <= oc_max_requests
        /\ (~WasCached /\ oc_sent >= oc_max_requests)
              => (oc_result' = Raises("RuntimeError") /\ oc_sent' = oc_sent)
        /\ WasCached
              => /\ oc_result' = ReturnedList(oc_cache[oc_key'[1]])
                 /\ oc_sent' = oc_sent
                 /\ oc_request_count' = oc_request_count
                 /\ oc_cache' = oc_cache ]_vars

\* what holds of the code: the limit bounds the answered requests only
C12_AnsweredWithinLimit ==
    [][ /\ oc_request_count' <= oc_max_requests
        /\ (~WasCached /\ oc_request_count >= oc_max_requests)
              => (oc_result' = Raises("RuntimeError") /\ oc_sent' = oc_sent)
        /\ WasCached
              => /\ oc_result' = ReturnedList(oc_cache[oc_key'[1]])
                 /\ oc_sent' = oc_sent
                 /\ oc_request_count' = oc_request_count
                 /\ oc_cache' = oc_cache ]_vars

----------------------------------------------------------------------------
(* orchestration/conversation_manager.py *)

\* lines 36-38
SystemMessage == [ role |-> "system", content |-> "SYSTEM_PROMPT" ]

\* line 119
MAX_MESSAGES == 20

\* lines 120-130: the system message and the last MAX_MESSAGES - 1 messages
\* (the contents of the model are shorter than the 5000 characters of line 128)
Trimmed(messages) ==
    IF Len(messages) > MAX_MESSAGES
    THEN (IF messages[1].role = "system" THEN << messages[1] >> ELSE << >>)
            \o SubSeq(messages, Len(messages) - MAX_MESSAGES + 2, Len(messages))
    ELSE messages

\* any(k in q for k in words)
AnyIn(qq, words) == \E w \in words : Contains(qq, w)

\* lines 134-149
KbGroups ==
    << [ section |-> "overview", words |-> { << "o", "v", "e", "r", "v", "i", "e", "w" >>, << "i", "n", "t", "r", "o", "d", "u", "c", "e" >>, << "a", "b", "o", "u", "t" >>, << "c", "i", "t", "y" >> } ],
       [ section |-> "weather", words |-> { << "w", "h", "e", "n" >>, << "b", "e", "s", "t", " ", "t", "i", "m", "e" >>, << "w", "e", "a", "t", "h", "e", "r" >>, << "s", "e", "a", "s", "o", "n" >> } ],
       [ section |-> "getting_around", words |-> { << "g", "e", "t", " ", "a", "r", "o", "u", "n", "d" >>, << "t", "r", "a", "n", "s", "p", "o", "r", "t" >>, << "a", "u", "t", "o" >>, << "b", "u", "s" >> } ],
       [ section |-> "attractions", words |-> { << "a", "t", "t", "r", "a", "c", "t", "i", "o", "n" >>, << "s", "e", "e" >>, << "v", "i", "s", "i", "t" >>, << "p", "l", "a", "c", "e" >> } ],
       [ section |-> "neighborhoods", words |-> { << "n", "e", "i", "g", "h", "b", "o", "r", "h", "o", "o", "d" >>, << "a", "r", "e", "a" >>, << "w", "h", "e", "r", "e", " ", "t", "o", " ", "s", "t", "a", "y" >> } ],
       [ section |-> "tips", words |-> { << "t", "i", "p" >>, << "e", "t", "i", "q", "u", "e", "t", "t", "e" >>, << "f", "o", "o", "d", " ", "s", "a", "f", "e", "t", "y" >>, << "b", "u", "d", "g", "e", "t" >> } ] >>

RECURSIVE KbSectionsFrom(_, _)
KbSectionsFrom(qq, k) ==
    IF k > Len(KbGroups) THEN << >>
    ELSE (IF AnyIn(qq, KbGroups[k].words) THEN << KbGroups[k].section >> ELSE << >>)
            \o KbSectionsFrom(qq, k + 1)

kb_sections_used(qq) ==
    IF KbSectionsFrom(qq, 1) = << >> THEN << "overview" >> ELSE KbSectionsFrom(qq, 1)

\* lines 155-160
irrelevant_keywords ==
    { << "m", "u", "m", "b", "a", "i" >>, << "d", "e", "l", "h", "i" >>, << "g", "o", "a" >>, << "k", "e", "r", "a", "l", "a" >>, << "b", "a", "n", "g", "a", "l", "o", "r", "e" >>, << "h", "y", "d", "e", "r", "a", "b", "a", "d" >>, << "c", "h", "e", "n", "n", "a", "i" >>,
      << "k", "o", "l", "k", "a", "t", "a" >>, << "p", "u", "n", "e" >>, << "j", "a", "i", "p", "u", "r" >>, << "j", "o", "d", "h", "p", "u", "r" >>, << "j", "a", "i", "s", "a", "l", "m", "e", "r" >>, << "m", "o", "u", "n", "t", " ", "e", "v", "e", "r", "e", "s", "t" >>,
      << "p", "a", "r", "i", "s" >>, << "l", "o", "n", "d", "o", "n" >>, << "n", "e", "w", " ", "y", "o", "r", "k" >>, << "t", "o", "k", "y", "o" >>, << "d", "u", "b", "a", "i" >>, << "s", "i", "n", "g", "a", "p", "o", "r", "e" >> }

is_irrelevant(q_lower) == AnyIn(q_lower, irrelevant_keywords) /\ ~Contains(q_lower, << "u", "d", "a", "i", "p", "u", "r" >>)

\* lines 163-166
is_why_question(q_lower) ==
    AnyIn(q_lower, { << "w", "h", "y", " ", "d", "i", "d", " ", "y", "o", "u" >>, << "w", "h", "y", " ", "t", "h", "i", "s" >>, << "w", "h", "y", " ", "t", "h", "a", "t" >>, << "w", "h", "y", " ", "s", "u", "g", "g", "e", "s", "t" >>,
                     << "w", "h", "y", " ", "r", "e", "c", "o", "m", "m", "e", "n", "d" >>, << "e", "x", "p", "l", "a", "i", "n", " ", "w", "h", "y" >> })

\* lines 169-175
is_general_query(q_lower) ==
    /\ AnyIn(q_lower, { << "p", "l", "a", "n", " ", "a", " ", "t", "r", "i", "p" >>, << "w", "h", "a", "t", " ", "t", "o", " ", "d", "o" >>, << "i", "t", "i", "n", "e", "r", "a", "r", "y" >>, << "v", "i", "s", "i", "t", " ", "u", "d", "a", "i", "p", "u", "r" >>,
                        << "t", "r", "a", "v", "e", "l", " ", "t", "o", " ", "u", "d", "a", "i", "p", "u", "r" >> })
    /\ ~AnyIn(q_lower, { << "d", "a", "y" >>, << "h", "e", "r", "i", "t", "a", "g", "e" >>, << "f", "o", "o", "d" >>, << "n", "a", "t", "u", "r", "e" >>, << "c", "u", "l", "t", "u", "r", "e" >>, << "r", "e", "l", "a", "x", "e", "d" >>,
                         << "m", "o", "d", "e", "r", "a", "t", "e" >>, << "p", "a", "c", "k", "e", "d" >> })

\* lines 178-184
context_hints(q_lower) ==
    (IF is_irrelevant(q_lower) THEN << "IRRELEVANT" >> ELSE << >>)
        \o (IF is_why_question(q_lower) THEN << "EXPLANATION_REQUEST" >> ELSE << >>)
        \o (IF is_general_query(q_lower) THEN << "GENERAL_ITINERARY_QUERY" >> ELSE << >>)

\* lines 186-191: the text of the user message of the turn, kept in parts
user_block(user_message, ctx, hints) ==
    [ message |-> user_message,
      tips |-> IF Strip(ctx) # << >> THEN ctx ELSE << >>,
      hints |-> hints ]

UserMessage(content) == [ role |-> "user", content |-> content ]

AssistantMessage(content) == [ role |-> "assistant", content |-> content ]

\* x or default, for a str
OrElse(x, default) == IF x = << >> THEN default ELSE x

\* what process_with_tools returns: the text, error_detail (<< >> for None,
\* else the detail in a list), the itinerary (the same) and the sources
Reply(text, error_detail, itinerary_data, sources_pois, sections) ==
    [ returned |->
        [ response_text |-> text, error_detail |-> error_detail,
          itinerary_data |-> itinerary_data,
          sources |-> [ pois |-> sources_pois, kb_sections |-> sections ] ] ]

\* the fields of the manager and the outcome when the call is left
Left(grok, messages, last_itinerary, result) ==
    [ grok |-> grok, messages |-> messages, last_itinerary |-> last_itinerary,
      result |-> result ]

\* lines 199-203
InitFailedWith(messages, fallback, sections) ==
    Left(FALSE, Append(messages, AssistantMessage(fallback)), << >>,
         Reply(fallback, << "Grok init failed" >>, << >>, << >>, sections))

InitFailed(messages, ctx, sections) ==
    InitFailedWith(messages, OrElse(Strip(ctx), << "I", " ", "c", "o", "u", "l", "d", "n", "'", "t", " ", "c", "o", "n", "n", "e", "c", "t", " ", "t", "o", " ", "t", "h", "e", " ", "p", "l", "a", "n", "n", "e", "r", "." >>), sections)

\* lines 296-315: the last tool message whose content is an itinerary
ItineraryMessages(messages) ==
    { k \in Max(1, Len(messages) - 19)..Len(messages) :
        /\ messages[k].role = "tool"
        /\ "days" \in DOMAIN messages[k].content }

_extract_itinerary_from_messages(messages) ==
    IF ItineraryMessages(messages) = {} THEN << >>
    ELSE << messages[MaxOf(ItineraryMessages(messages))].content >>

\* lines 227-235
MaxDaysKept == 10

MaxActivitiesKept == 20

LimitedDay(day) ==
    IF "activities" \in DOMAIN day /\ Len(day.activities) > MaxActivitiesKept
    THEN [ day EXCEPT !.activities = SubSeq(day.activities, 1, MaxActivitiesKept) ]
    ELSE day

LimitedDays(days) == [ k \in 1..Min(Len(days), MaxDaysKept) |-> LimitedDay(days[k]) ]

\* lines 224-243: None stays None
LastItinerary(itinerary_data) ==
    IF itinerary_data = << >> THEN << >>
    ELSE << [ days |-> LimitedDays(Get(itinerary_data[1], "days", << >>)),
              metadata |-> Get(itinerary_data[1], "metadata", << >>) ] >>

\* lines 220-222: out.get("itinerary"), else what the messages hold
ItineraryData(chat_out, messages) ==
    IF chat_out.itinerary # << >> /\ DOMAIN chat_out.itinerary[1] # {} THEN chat_out.itinerary
    ELSE _extract_itinerary_from_messages(messages)

\* lines 207-250
ChatAnsweredWith(messages, content, itinerary_data, chat_out, sections) ==
    Left(TRUE, Append(messages, AssistantMessage(content)), LastItinerary(itinerary_data),
         Reply(content, << >>, itinerary_data, chat_out.sources.pois, sections))

ChatAnswered(messages, chat_out, sections) ==
    ChatAnsweredWith(messages, Get(chat_out.message, "content", << >>),
                     ItineraryData(chat_out, messages), chat_out, sections)

\* the classes an exception is an instance of (grok_client.py, lines 30-35:
\* GrokCreditsError is a RuntimeError)
ExceptionClasses(type) ==
    IF type = "GrokCreditsError" THEN { "GrokCreditsError", "RuntimeError", "Exception" }
    ELSE { type, "Exception" }

\* lines 258-265: the retry without tools answered
RetryAnsweredWith(messages, content, err_str, sections) ==
    Left(TRUE, Append(messages, AssistantMessage(content)), << >>,
         Reply(content, << "Function calling error (retried without tools)", err_str >>,
               << >>, << >>, sections))

RetryAnswered(messages, chat_out, err_str, sections) ==
    RetryAnsweredWith(messages,
                      IF Get(chat_out.message, "content", << >>) = << >> THEN << >>
                      ELSE << Get(chat_out.message, "content", << >>), "Note" >>,
                      err_str, sections)

\* lines 270: the raise of the first handler leaves the try statement, the
\* handlers below it are not tried; the user message of line 193 stays
Reraised(messages, exception) == Left(TRUE, messages, << >>, Raises(exception.type))

\* lines 251-270
RuntimeErrorCaught(messages, exception, retry, sections) ==
    IF /\ \/ Contains(exception.text, << "F", "u", "n", "c", "t", "i", "o", "n", " ", "c", "a", "l", "l", " ", "e", "r", "r", "o", "r" >>)
          \/ Contains(exception.text, << "t", "o", "o", "l", "_", "u", "s", "e", "_", "f", "a", "i", "l", "e", "d" >>)
       /\ retry.kind = "out"
    THEN RetryAnswered(messages, retry.out, exception.text, sections)
    ELSE Reraised(messages, exception)

\* lines 271-290: the fallback of a handler with the tips, cut after 2000
\* characters in the source
FallbackWith(messages, fallback, detail, sections) ==
    Left(TRUE, Append(messages, AssistantMessage(fallback)), << >>,
         Reply(fallback, detail, << >>, << >>, sections))

Fallback(messages, opening, ctx, detail, sections) ==
    FallbackWith(messages, << opening, OrElse(ctx, << "N", "o", " ", "c", "o", "n", "t", "e", "x", "t", " ", "a", "v", "a", "i", "l", "a", "b", "l", "e", "." >>) >>,
                 detail, sections)

\* lines 205-290: the handlers in the order of the source
ChatRaised(messages, exception, retry, ctx, sections) ==
    IF "RuntimeError" \in ExceptionClasses(exception.type)
    THEN RuntimeErrorCaught(messages, exception, retry, sections)
    ELSE IF "GrokCreditsError" \in ExceptionClasses(exception.type)
    THEN Fallback(messages, "Grok is unavailable", ctx,
                  << "xAI credits required", exception.text >>, sections)
    ELSE Fallback(messages, "I ran into an issue with the planner", ctx,
                  << "Grok chat failed", exception.type, exception.text >>, sections)

\* lines 198-290 with the messages after line 193
AfterUserMessage(grok, messages, init_ok, chat, retry, ctx, sections) ==
    IF ~grok /\ ~init_ok THEN InitFailed(messages, ctx, sections)
    ELSE IF chat.kind = "out" THEN ChatAnswered(messages, chat.out, sections)
    ELSE ChatRaised(messages, chat.exception, retry, ctx, sections)

\* lines 111-290; init_ok: the clients of lines 97-104 can be made; chat and
\* retry: what grok.chat does at lines 206 and 258
process_with_tools(grok, messages, user_message, ctx, init_ok, chat, retry) ==
    AfterUserMessage(grok,
                     Append(Trimmed(messages),
                            UserMessage(user_block(user_message, ctx,
                                                   context_hints(Lower(Strip(user_message)))))),
                     init_ok, chat, retry, ctx,
                     kb_sections_used(Lower(Strip(user_message))))

----------------------------------------------------------------------------
(* ConversationManager: the conversations of the model *)

MaxTurns == 2

CM_day == [ day_number |-> 1, activities |-> << [ poi |-> [ name |-> << "C", "i", "t", "y", " ", "P", "a", "l", "a", "c", "e" >> ] ] >> ]

CM_itinerary == [ days |-> << CM_day >>, metadata |-> [ total_pois |-> 1 ] ]

\* a history as __setstate__ restores it: the system message and 19 more,
\* the results of the tools among them
RestoredHistory(tool_content) ==
    [ k \in 1..MAX_MESSAGES |->
        IF k = 1 THEN SystemMessage
        ELSE IF k = 18 THEN [ role |-> "tool", content |-> tool_content ]
        ELSE IF k % 2 = 0 THEN UserMessage(user_block(<< "h", "e", "l", "l", "o" >>, << >>, << >>))
        ELSE AssistantMessage(<< "w", "e", "l", "c", "o", "m", "e" >>) ]

\* the histories a manager starts with: a new one (lines 36-38), restored ones
ManagerHistories ==
    << << SystemMessage >>,
       RestoredHistory(CM_itinerary),
       RestoredHistory([ error |-> "Unknown tool" ]) >>

UserMessages ==
    { << "P", "l", "a", "n", " ", "a", " ", "t", "r", "i", "p", " ", "t", "o", " ", "U", "d", "a", "i", "p", "u", "r" >>, << "W", "h", "y", " ", "d", "i", "d", " ", "y", "o", "u", " ", "p", "i", "c", "k", " ", "t", "h", "i", "s", " ", "p", "l", "a", "c", "e", " ", "f", "o", "r", " ", "d", "a", "y", " ", "2" >>,
      << "b", "e", "s", "t", " ", "t", "i", "m", "e", " ", "t", "o", " ", "v", "i", "s", "i", "t", " ", "J", "a", "i", "p", "u", "r" >> }

RetrievedContexts == { << >>, << "C", "a", "r", "r", "y", " ", "w", "a", "t", "e", "r", "." >> }

ChatOut(message, itinerary) ==
    [ kind |-> "out",
      out |-> [ message |-> message, itinerary |-> itinerary,
                sources |-> [ pois |-> << >> ] ] ]

ChatException(type, text) ==
    [ kind |-> "raise", exception |-> [ type |-> type, text |-> text ] ]

\* what grok.chat does: it answers (with text or without, with an itinerary or
\* without), or an exception leaves it
ChatOutcomes ==
    << ChatOut([ content |-> << "H", "e", "r", "e", " ", "i", "s", " ", "y", "o", "u", "r", " ", "p", "l", "a", "n" >> ], << CM_itinerary >>),
       ChatOut([ content |-> << "W", "h", "i", "c", "h", " ", "d", "a", "y", "s" >> ], << >>),
       ChatOut([ role |-> "assistant" ], << >>),
       ChatException("RuntimeError", << "x", "A", "I", " ", "r", "e", "q", "u", "e", "s", "t", " ", "f", "a", "i", "l", "e", "d", " ", "a", "f", "t", "e", "r", " ", "r", "e", "t", "r", "i", "e", "s" >>),
       ChatException("RuntimeError", << "F", "u", "n", "c", "t", "i", "o", "n", " ", "c", "a", "l", "l", " ", "e", "r", "r", "o", "r", ":", " ", "b", "a", "d", " ", "a", "r", "g", "u", "m", "e", "n", "t", "s" >>),
       ChatException("GrokCreditsError", << "n", "o", " ", "c", "r", "e", "d", "i", "t", "s", " ", "o", "r", " ", "l", "i", "c", "e", "n", "s", "e", "s" >>),
       ChatException("KeyError", << "c", "h", "o", "i", "c", "e", "s" >>) >>

\* what the retry without tools does
RetryOutcomes ==
    << ChatOut([ content |-> << "S", "o", "m", "e", " ", "i", "d", "e", "a", "s" >> ], << >>),
       ChatOut([ role |-> "assistant" ], << >>),
       ChatException("RuntimeError", << "x", "A", "I", " ", "r", "e", "q", "u", "e", "s", "t", " ", "f", "a", "i", "l", "e", "d", " ", "a", "f", "t", "e", "r", " ", "r", "e", "t", "r", "i", "e", "s" >>) >>

\* lines 27-39 and 85-90: a manager made with a client or without one, or
\* restored (then without one)
CInit ==
    /\ \E k \in 1..Len(ManagerHistories) :
          /\ cm_messages = ManagerHistories[k]
          /\ cm_grok \in (IF k = 1 THEN BOOLEAN ELSE { FALSE })
    /\ cm_last_itinerary = << >>
    /\ cm_turns = 0 /\ cm_call = NoCall /\ cm_result = NoCall

\* the fields of the manager after the call
Leave(left) ==
    /\ cm_grok' = left.grok
    /\ cm_messages' = left.messages
    /\ cm_last_itinerary' = left.last_itinerary
    /\ cm_result' = left.result

ProcessCall ==
    \E user_message \in UserMessages, ctx \in RetrievedContexts, init_ok \in BOOLEAN,
       c \in 1..Len(ChatOutcomes), r \in 1..Len(RetryOutcomes) :
        /\ cm_turns < MaxTurns
        /\ cm_turns' = cm_turns + 1
        /\ cm_call' = [ user_message |-> user_message,
                        init_failed |-> ~cm_grok /\ ~init_ok,
                        chat |-> ChatOutcomes[c].kind,
                        raised |-> IF ChatOutcomes[c].kind = "raise"
                                   THEN ChatOutcomes[c].exception.type ELSE "" ]
        /\ Leave(process_with_tools(cm_grok, cm_messages, user_message, ctx, init_ok,
                                    ChatOutcomes[c], RetryOutcomes[r]))
        /\ UNCHANGED << bvars, tvars, fvars, evars, gvars, pvars, ovars >>

InitConversation == BInit /\ TIdle /\ FIdle /\ EIdle /\ GIdle /\ PIdle /\ OIdle /\ CInit

SpecConversation == InitConversation /\ [][ProcessCall]_vars

\* the LLM call of the last turn failed: the client could not be made, or
\* grok.chat raised
LlmFailed == cm_call # NoCall /\ (cm_call.init_failed \/ cm_call.chat = "raise")

\* the history ends with the user message of the turn and one assistant
\* message after it
EndsWithTurn(messages, user_message) ==
    /\ Len(messages) >= 2
    /\ messages[Len(messages) - 1].role = "user"
    /\ messages[Len(messages) - 1].content.message = user_message
    /\ messages[Len(messages)].role = "assistant"

\* C13: when the client cannot be initialised or grok.chat raises,
\* process_with_tools does not raise: it returns a text with an error_detail
\* that is not None and the itinerary None, and the history ends with the user
\* message of the turn followed by one assistant message
C13_NeverRaises ==
    LlmFailed =>
        /\ "returned" \in DOMAIN cm_result
        /\ cm_result.returned.error_detail # << >>
        /\ cm_result.returned.itinerary_data = << >>
        /\ EndsWithTurn(cm_messages, cm_call.user_message)

\* what holds of the code: the reply of C13 is returned when the client
\* cannot be made and when an exception that is not a RuntimeError leaves
\* grok.chat; a RuntimeError (a GrokCreditsError is one) is answered only
\* by a retry that succeeds, and otherwise leaves process_with_tools with the
\* user message as the last of the history
C13_RuntimeErrorLeaves ==
    LlmFailed =>
        \/ /\ "returned" \in DOMAIN cm_result
           /\ cm_result.returned.error_detail # << >>
           /\ cm_result.returned.itinerary_data = << >>
           /\ EndsWithTurn(cm_messages, cm_call.user_message)
        \/ /\ ~cm_call.init_failed
           /\ "RuntimeError" \in ExceptionClasses(cm_call.raised)
           /\ cm_result = Raises(cm_call.raised)
           /\ cm_messages[Len(cm_messages)].role = "user"

----------------------------------------------------------------------------
(* itinerary_builder: the parameters of a call and the warnings of a day *)

\* the scan and the loop over the days behave as with days days to plan and
\* a capacity of cap ticks a day: the loop stops after day days (or when
\* every place is used); a candidate that fits under cap is not rejected,
\* and one that does not fit is rejected as long as the 10% allowance is
\* not open
PlansWith(days, cap) ==
    /\ pc = "day_end"
          => (pc' = "finish" <=> (Cardinality(used) >= Len(unique) \/ d = days))
    /\ (pc = "scan" /\ ~AlreadyUsed /\ PotentialTotal <= cap) => ~CandRejected
    /\ (pc = "scan" /\ ~AlreadyUsed /\ PotentialTotal > cap
           /\ attempts_since_last_add + 1 <= 10) => CandRejected

\* min(4, max(1, duration_days))
ClampedDays(n) == Min(4, Max(1, n))

\* min(12, max(1, daily_hours)) * multiplier, in ticks
ClampedCap(hours, mult) == Min(12, Max(1, hours)) * 3 * mult

\* relaxed, moderate and packed, compared without case and without the
\* blanks around the word; every other pace is moderate
StrippedMult(p) ==
    IF Lower(Strip(p)) = S_relaxed THEN 60
    ELSE IF Lower(Strip(p)) = S_packed THEN 90
    ELSE 75

\* C18 as stated: the builder plans min(4, max(1, duration_days)) days with
\* a capacity of min(12, max(1, daily_hours)) * pace_multiplier for every
\* integer input, 0 and negative values included; a pace other than
\* relaxed, moderate or packed (compared without case) counts as moderate
C18_Clamped ==
    [][ PlansWith(ClampedDays(duration_days),
                  ClampedCap(daily_hours, ClaimMult(pace))) ]_vars

\* C18 amended: a duration_days of 0 stands for 2 days and a daily_hours of 0
\* for 8 hours before the clamping, and the pace is compared without case
\* after the blanks around it are stripped
C18_ClampedOrDefault ==
    [][ PlansWith(ClampedDays(IF duration_days = 0 THEN 2 ELSE duration_days),
                  ClampedCap(IF daily_hours = 0 THEN 8 ELSE daily_hours,
                             StrippedMult(pace))) ]_vars

\* C18 witness: a call with duration_days = 0 and daily_hours = 0 has
\* returned two days, one of them longer than 0.75 h
C18_Witness ==
    /\ Returned
    /\ duration_days = 0 /\ daily_hours = 0
    /\ Len(out.days) = 2
    /\ \E k \in 1..Len(out.days) :
          out.days[k].total_hours * 3 > ClampedCap(0, ClaimMult(pace))

\* C18 second witness: a call with negative values has planned one day of
\* 0.75 h and left places unused
C18_WitnessNegative ==
    /\ Returned
    /\ duration_days < 0 /\ daily_hours < 0
    /\ Len(out.days) = 1
    /\ Cardinality(used) < Len(unique)

\* metadata.warnings has a 'Day d: No meal slot' warning for the day d
HasMealWarning(itinerary, day_number) ==
    \E k \in 1..Len(itinerary.metadata.warnings) :
        /\ itinerary.metadata.warnings[k].kind = "No meal slot"
        /\ itinerary.metadata.warnings[k].day = day_number

\* no activity of the day has the type food, in whatever case
NoFoodActivity(day) ==
    \A k \in 1..Len(day.activities) : Lower(day.activities[k].poi.type) # S_food

\* C19 as stated: for every day d of the output, days without activities
\* included, the warnings have 'Day d: No meal slot' if and only if no
\* activity of day d has the type food
C19_MealWarningEveryDay ==
    Returned =>
        \A k \in 1..Len(out.days) :
            HasMealWarning(out, out.days[k].day_number) <=> NoFoodActivity(out.days[k])

\* C19 amended: the warnings have 'Day d: No meal slot' if and only if day d
\* has at least one activity and none of its activities has the type food;
\* a day left without activities has no such warning
C19_MealWarningFilledDays ==
    Returned =>
        \A k \in 1..Len(out.days) :
            HasMealWarning(out, out.days[k].day_number)
                <=> (out.days[k].activities # << >> /\ NoFoodActivity(out.days[k]))

\* C19 witness: an output with a day left without activities and no meal
\* warning for it
C19_Witness ==
    /\ Returned
    /\ \E k \in 1..Len(out.days) :
          /\ out.days[k].activities = << >>
          /\ ~HasMealWarning(out, out.days[k].day_number)

\* C19 second witness: a day without food that is warned about, next to a
\* day whose food place has its type written 'Food'
C19_WitnessWarned ==
    /\ Returned
    /\ \E k, j \in 1..Len(out.days) :
          /\ out.days[k].activities # << >>
          /\ HasMealWarning(out, out.days[k].day_number)
          /\ ~HasMealWarning(out, out.days[j].day_number)
          /\ \E i \in 1..Len(out.days[j].activities) :
                out.days[j].activities[i].poi.type = S_Food

\* the scheduler under weak fairness: a step that can be taken is taken
SpecBuilderFair == SpecBuilder /\ WF_vars(BNext)

\* the number of activities of the first n days
RECURSIVE PlacedUpTo(_, _)
PlacedUpTo(days, n) ==
    IF n = 0 THEN 0 ELSE Len(days[n].activities) + PlacedUpTo(days, n - 1)

\* the days are numbered 1..k with 1 <= k <= limit; k is below limit only
\* when the k days hold every one of the distinct places; every day after
\* the first was opened while a place was still unused
DaysUntilAllPlaced(days, limit, distinct) ==
    /\ Len(days) \in 1..limit
    /\ \A k \in 1..Len(days) : days[k].day_number = k
    /\ Len(days) < limit => PlacedUpTo(days, Len(days)) = distinct
    /\ \A k \in 2..Len(days) : PlacedUpTo(days, k - 1) < distinct

\* the stripped names of the places of a list that are not blank
DistinctNames(list) ==
    { Strip(list[k].name) : k \in 1..Len(list) } \ { << >> }

ClockEnd(act) == TwelveHourMinutes(act.time) + DurMinutes(act.poi.duration_hours)

\* the projected end of the candidate of the scan on the clock that starts
\* at 8:00, in minutes since midnight
ProjectedEnd == 8 * 60 + start_minutes + TravelMin + DurMinutes(Cand.duration_hours)

\* C22: every activity of an output ends strictly before 21:00 on the clock
\* that starts at 8:00; a candidate whose projected end reaches or passes
\* 21:00 is not scheduled, and the day is closed with the activities it has
C22_EndsBeforeNine ==
    /\ [](Returned =>
            \A k \in 1..Len(out.days) : \A j \in 1..Len(out.days[k].activities) :
                /\ IsTwelveHour(out.days[k].activities[j].time)
                /\ ClockEnd(out.days[k].activities[j]) < 21 * 60)
    /\ [][ (/\ pc = "scan" /\ ~AlreadyUsed
            /\ (~OverCap \/ OverrunAllowed)
            /\ ProjectedEnd >= 21 * 60)
              => /\ activities' = activities /\ used' = used
                 /\ pc' = "day_end" ]_vars

\* C22 witness: an output with an activity that ends after 5 PM
C22_Witness ==
    /\ Returned
    /\ \E k \in 1..Len(out.days) : \E j \in 1..Len(out.days[k].activities) :
          /\ j > 1
          /\ ClockEnd(out.days[k].activities[j]) >= 17 * 60

\* the minutes by car between two activities as the estimator gives them,
\* kept within 15 and 30
ClampedAuto(before, act) ==
    Min(30, Max(15, travel_calculate(before.poi.lat, act.poi.lat).auto_time_minutes))

\* the first activity starts at 8:00 AM without travel; every later one has
\* the clamped travel time and starts when the one before it has ended and
\* the travel is done
DayClock(acts) ==
    \A j \in 1..Len(acts) :
        IF j = 1
        THEN /\ acts[j].travel_time_from_previous = 0
             /\ acts[j].time = << "8", ":", "0", "0", " ", "A", "M" >>
        ELSE /\ acts[j].travel_time_from_previous \in 15..30
             /\ acts[j].travel_time_from_previous = ClampedAuto(acts[j - 1], acts[j])
             /\ IsTwelveHour(acts[j].time)
             /\ TwelveHourMinutes(acts[j].time)
                    = ClockEnd(acts[j - 1]) + acts[j].travel_time_from_previous
             /\ TwelveHourMinutes(acts[j].time) > TwelveHourMinutes(acts[j - 1].time)

\* C23: in every day of an output the first activity has
\* travel_time_from_previous 0 and the time 8:00 AM; every later activity has
\* the estimator's minutes by car clamped to [15, 30] as its travel time and
\* starts at the start of the activity before it plus that activity's
\* duration in whole minutes plus its own travel time, so the start times
\* of a day increase strictly
C23_DayClock ==
    Returned => \A k \in 1..Len(out.days) : DayClock(out.days[k].activities)

\* C23 witness: a day of three activities, one reached in the 15 minutes of
\* the lower clamp and one in more than that
C23_Witness ==
    /\ Returned
    /\ \E k \in 1..Len(out.days) :
          /\ Len(out.days[k].activities) >= 3
          /\ \E i, j \in 2..Len(out.days[k].activities) :
                /\ out.days[k].activities[i].travel_time_from_previous = 15
                /\ travel_calculate(out.days[k].activities[i - 1].poi.lat,
                                    out.days[k].activities[i].poi.lat).auto_time_minutes < 15
                /\ out.days[k].activities[j].travel_time_from_previous > 15

\* start + duration + travel of an activity that starts at start
EndFrom(act, start) ==
    start + DurMinutes(ActDuration(act)) + Get(act, "travel_time_from_previous", 0)

\* the computed end of the last activity before j whose start is known, 8:00
\* when there is none; starts[i] is << >> for an activity without a start
RECURSIVE PreviousEnd(_, _, _)
PreviousEnd(acts, starts, j) ==
    IF j = 1 THEN 8 * 60
    ELSE IF starts[j - 1] # << >> THEN EndFrom(acts[j - 1], starts[j - 1][1])
    ELSE PreviousEnd(acts, starts, j - 1)

\* the activities that start more than 15 minutes before the end of the
\* timed activity before them
ConflictsOf(acts, starts) ==
    { j \in 1..Len(acts) :
        starts[j] # << >> /\ PreviousEnd(acts, starts, j) - starts[j][1] > 15 }

\* the report has a time conflict exactly for the activities of conflicts(k)
\* of every day k, and passed is False when there is one
ConflictsReported(itinerary, report, conflicts(_)) ==
    \A k \in 1..Len(itinerary) :
        /\ \A j \in 1..Len(itinerary[k].activities) :
              HasActIssue(report, "Time conflict", k, j) <=> j \in conflicts(k)
        /\ conflicts(k) # {} => ~report.passed

\* the starts of the activities of a day as a reader takes them
ClockStarts(acts) ==
    [ j \in 1..Len(acts) |->
        IF IsTwelveHour(Get(acts[j], "time", << >>))
        THEN << TwelveHourMinutes(acts[j].time) >> ELSE << >> ]

\* the starts of the activities of a day as _parse_time gives them, 0
\* counting as no start
ParsedStarts(acts) ==
    [ j \in 1..Len(acts) |->
        IF _parse_time(Get(acts[j], "time", << >>)) > 0
        THEN << _parse_time(acts[j].time) >> ELSE << >> ]

\* C24: a time conflict is reported for an activity, and passed is False, if
\* and only if the activity starts more than 15 minutes before the computed
\* end (start + duration + travel) of the timed activity before it, the
\* first one being compared with 8:00
C24_TimeConflicts ==
    fe_args # NoCall =>
        LET conflicts(k) == ConflictsOf(fe_args[1][k].activities,
                                        ClockStarts(fe_args[1][k].activities))
        IN  ConflictsReported(fe_args[1], fe_result, conflicts)

\* what holds of the code: the same with the starts that _parse_time
\* returns, where a result of 0 leaves the activity out
C24_ParsedTimeConflicts ==
    fe_args # NoCall =>
        LET conflicts(k) == ConflictsOf(fe_args[1][k].activities,
                                        ParsedStarts(fe_args[1][k].activities))
        IN  ConflictsReported(fe_args[1], fe_result, conflicts)

\* the findings that fail an itinerary and the findings that only warn
HardKinds ==
    { "No activities scheduled", "Exceeds daily limit", "Time conflict",
      "Extends beyond 9 PM" }

WarningKinds == { "Missing travel time", "Could not parse time", "No meal break" }

KindsOf(report) == { report.issues[k].kind : k \in 1..Len(report.issues) }

\* the score of a report, in hundredths, as the claim states it
ClaimedScore(report) ==
    IF report.issues = << >> THEN 100
    ELSE IF report.passed THEN 80
    ELSE Max(0, 100 - 15 * Len(report.issues))

C25_WitnessZero ==
    /\ fe_args # NoCall
    /\ ~fe_result.passed
    /\ Len(fe_result.issues) >= 7
    /\ fe_result.score = 0

\* the activity i of a day starts before the activity j, or with it and
\* ends no later; starts[i] is << >> for an activity without a valid start
StartsFirst(acts, starts, i, j) ==
    \/ starts[i][1] < starts[j][1]
    \/ /\ starts[i][1] = starts[j][1]
       /\ EndFrom(acts[i], starts[i][1]) <= EndFrom(acts[j], starts[j][1])

\* some pair of activities with a start overlaps by more than 15 minutes:
\* the end of the one that starts first lies more than 15 minutes after the
\* start of the other, wherever the two stand in the list
SomePairOverlaps(acts, starts) ==
    \E i, j \in { n \in 1..Len(acts) : starts[n] # << >> } :
        /\ i # j
        /\ StartsFirst(acts, starts, i, j)
        /\ EndFrom(acts[i], starts[i][1]) - starts[j][1] > 15

HasDayIssue(report, kind, day_idx) ==
    \E k \in 1..Len(report.issues) :
        /\ report.issues[k].kind = kind
        /\ report.issues[k].day = day_idx

\* the starts of the activities of an edited day as a reader takes them
EditClockStarts(acts) ==
    [ j \in 1..Len(acts) |->
        IF IsTwelveHour(Get(acts[j], "time", << >>))
        THEN << TwelveHourMinutes(acts[j].time) >> ELSE << >> ]

\* C26: an edited day gets at least one 'Time conflict' issue if and only
\* if some pair of its activities with valid start times overlaps by more
\* than 15 minutes, in whatever order the activities are listed
C26_TimeConflictPairs ==
    ed_args # NoCall =>
        \A k \in 1..Len(ed_args[2]) :
            HasDayIssue(ed_result, "Time conflict", k)
                <=> SomePairOverlaps(ed_args[2][k].activities,
                                     EditClockStarts(ed_args[2][k].activities))

\* what holds of the code: the same with the starts that _parse_time
\* returns, where a result of 0 leaves the activity out
C26_ParsedTimeConflictPairs ==
    ed_args # NoCall =>
        \A k \in 1..Len(ed_args[2]) :
            HasDayIssue(ed_result, "Time conflict", k)
                <=> SomePairOverlaps(ed_args[2][k].activities,
                                     ParsedStarts(ed_args[2][k].activities))

\* the positions of a list that hold the POI x
PositionsOf(list, x) == { k \in 1..Len(list) : list[k] = x }

\* the same POIs, each as often, in some order
IsPermutation(a, b) ==
    /\ Len(a) = Len(b)
    /\ \A k \in 1..Len(a) :
           Cardinality(PositionsOf(a, a[k])) = Cardinality(PositionsOf(b, a[k]))

\* the clusters of a list and the positions of their members in the list
ClusterIndices(list) == ClusterFrom(list, 1, {})

MembersOf(cluster) == { cluster[k] : k \in 1..Len(cluster) }

WithinRadius(list, i, j) ==
    HaversineM(list[i].lat, list[j].lat) <= CLUSTER_RADIUS_M

\* what is stated of the clusters cl of a list of POIs
ClustersAsStated(list, cl, clustered) ==
    /\ Len(clustered) = Len(cl)
    /\ \A c \in 1..Len(cl) :
           /\ Len(clustered[c]) = Len(cl[c])
           /\ \A k \in 1..Len(cl[c]) : clustered[c][k] = list[cl[c][k]]
    \* a partition: every position in exactly one cluster, once
    /\ \A i \in 1..Len(list) :
           Cardinality({ c \in 1..Len(cl) : i \in MembersOf(cl[c]) }) = 1
    /\ \A c \in 1..Len(cl) :
           /\ cl[c] # << >>
           /\ Cardinality(MembersOf(cl[c])) = Len(cl[c])
           /\ MembersOf(cl[c]) \subseteq 1..Len(list)
           \* the seed: the earliest position no earlier cluster holds
           /\ \A i \in 1..(cl[c][1] - 1) :
                  \E b \in 1..(c - 1) : i \in MembersOf(cl[b])
           \* every member within the radius of its own seed and of no
           \* seed created earlier
           /\ \A i \in MembersOf(cl[c]) :
                  /\ WithinRadius(list, cl[c][1], i)
                  /\ \A b \in 1..(c - 1) : ~WithinRadius(list, cl[b][1], i)

\* C27: _cluster_pois partitions the de-duplicated POIs; the first member
\* of a cluster is its seed, the earliest POI no earlier cluster absorbed;
\* every member lies within 2.0 km of its own seed and of no earlier seed,
\* so it never joins through another member; and the ordering handed to
\* the scheduler is a permutation of the de-duplicated POIs
C27_ClustersPartition ==
    pc # "idle" =>
        /\ ClustersAsStated(unique, ClusterIndices(unique), _cluster_pois(unique))
        /\ IsPermutation(ordered, unique)

\* three POIs of which the third lies within 2.0 km of the second, a member
\* of the first cluster, but not of its seed
C27_Witness ==
    /\ pc # "idle"
    /\ Len(unique) = 3
    /\ Len(ClusterIndices(unique)) = 2
    /\ WithinRadius(unique, 1, 2)
    /\ WithinRadius(unique, 2, 3)
    /\ ~WithinRadius(unique, 1, 3)
    /\ ordered # unique

\* a POI within 2.0 km of two seeds is in the cluster created first
C27_WitnessTwoSeeds ==
    /\ pc # "idle"
    /\ Len(unique) = 3
    /\ ClusterIndices(unique) = << << 1, 3 >>, << 2 >> >>
    /\ WithinRadius(unique, 2, 3)

\* every day of the output has an activity
EveryDayFilled(days) == \A k \in 1..Len(days) : days[k].activities # << >>

\* the report of evaluate_feasibility on the output of the call, with the
\* daily_hours and the pace of the call
OutputReport == evaluate_feasibility(out.days, daily_hours, pace)

\* C28: an output of itinerary_builder of which every day has an activity
\* passes evaluate_feasibility with the same daily_hours (1..12) and pace
C28_OutputPasses ==
    (Returned /\ daily_hours \in 1..12 /\ EveryDayFilled(out.days)) =>
        OutputReport.passed

\* what holds of the code: the same for a pace that is written without
\* blanks around it
C28_OutputPassesPlainPace ==
    (Returned /\ daily_hours \in 1..12 /\ EveryDayFilled(out.days)
        /\ Strip(pace) = pace) =>
        OutputReport.passed

\* the call was given fewer than 11 places of distinct names
FewerThanEleven == Cardinality(DistinctNames(pois)) < 11

\* no day was filled through the 10% allowance, and the counter of the
\* candidates passed over since the last placement never passed 10
NeverOverrun == via_overrun = {} /\ attempts_since_last_add <= 10

\* C29: with fewer than 11 distinct POIs the 10% allowance is never used,
\* and every day's total_hours is at most daily_hours * pace_multiplier
C29_NoOverrunBelowEleven ==
    FewerThanEleven =>
        /\ NeverOverrun
        /\ Returned =>
               \A k \in 1..Len(out.days) : out.days[k].total_hours * 3 <= ClaimCap

\* C29 as amended: with fewer than 11 distinct POIs the 10% allowance is
\* never used, and every day's total_hours is at most the capacity of the
\* call, the pace multiplier times daily_hours clamped to 1..12 (8 for a
\* daily_hours of 0); that is at most daily_hours * pace_multiplier when
\* daily_hours is at least 1
C29_NoOverrunWithinCapacity ==
    FewerThanEleven =>
        /\ NeverOverrun
        /\ Returned =>
               \A k \in 1..Len(out.days) :
                   /\ out.days[k].total_hours * 3
                          <= ClampedCap(IF daily_hours = 0 THEN 8 ELSE daily_hours,
                                        StrippedMult(pace))
                   /\ daily_hours >= 1 => out.days[k].total_hours * 3 <= ClaimCap

\* ten distinct POIs, nine over the capacity and a last one of under 2 hours
\* that is over the capacity by less than 10%: it is the tenth candidate
\* passed over and the day stays empty
C29_Witness ==
    /\ Returned
    /\ Cardinality(DistinctNames(pois)) = 10
    /\ Len(ordered) = 10
    /\ daily_hours >= 1
    /\ out.days[1].activities = << >>
    /\ ordered[10].duration_hours < 2 * TicksPerHour
    /\ ordered[10].duration_hours > ClaimCap
    /\ 10 * ordered[10].duration_hours <= 11 * ClaimCap

\* a call without daily_hours, filled to the capacity of 8 hours a day
C29_WitnessDefault ==
    /\ Returned /\ FewerThanEleven /\ daily_hours = 0
    /\ \E k \in 1..Len(out.days) : out.days[k].total_hours > 0

\* the numbers of the day markers whose block names a place
RECURSIVE KeptNumbers(_, _)
KeptNumbers(numbers, places) ==
    IF numbers = << >> THEN << >>
    ELSE (IF Head(places) # << >> THEN << Head(numbers) >> ELSE << >>)
             \o KeptNumbers(Tail(numbers), Tail(places))

\* every returned day has an activity, and the days are those of the kept
\* markers, in the order of the text, under the numbers of their markers;
\* None when no marker is kept
ReturnsKept(result, kept) ==
    IF kept = << >> THEN result = NoItinerary
    ELSE /\ result # NoItinerary
         /\ \A j \in 1..Len(result.days) : result.days[j].activities # << >>
         /\ [j \in 1..Len(result.days) |-> result.days[j].day_number] = kept

\* C30: every day parse_text_itinerary returns has an activity; a 'Day N'
\* block without a recognizable entry is left out and the other days keep
\* the numbers of their markers; when no block has an entry the result is
\* None, day markers or not
C30_EmptyBlocksOmitted ==
    ParserCalled =>
        ReturnsKept(pt_result,
                    KeptNumbers(DayLines(SplitLines(pt_text[1])),
                                DayPlaces(SplitLines(pt_text[1]))))

\* a marker line that ends with the number or with asterisks, so that the
\* newline is the character the marker expression ends on
EndsOnNewline(line) ==
    /\ LineOf(line).number > 0
    /\ line[Len(line)] \in { "0", "1", "2", "3", "4", "5", "6", "7", "8", "9", "*" }

\* some such marker line is directly followed by another marker line
RECURSIVE MarkerSwallowed(_)
MarkerSwallowed(lines) ==
    /\ Len(lines) >= 2
    /\ \/ EndsOnNewline(lines[1]) /\ LineOf(lines[2]).number > 0
       \/ MarkerSwallowed(Tail(lines))

\* what holds of the code: the same for a text without such a pair of lines
C30_EmptyBlocksOmittedApart ==
    (ParserCalled /\ ~MarkerSwallowed(SplitLines(pt_text[1]))) =>
        ReturnsKept(pt_result,
                    KeptNumbers(DayLines(SplitLines(pt_text[1])),
                                DayPlaces(SplitLines(pt_text[1]))))

====
